---- MODULE Spec2Model ----
(***************************************************************************)
(* A model of the two stateful cores of gemVPS:                            *)
(*   - AdvancedSignalAggregator (src/signals/signal_aggregator.py): the    *)
(*     signal queue, its single consumer loop, the weighting and the       *)
(*     confirmation buffer, update_weights and the high-priority path;     *)
(*   - CorrelationEngine (src/analysis/correlation_engine.py): discovery,  *)
(*     the spread scan, the per-group position state machine and run_loop  *)
(*     with its exception handler.                                         *)
(* Python floats are modelled as exact rationals <<numerator, denominator>>*)
(* with a positive denominator; no value of the model depends on float     *)
(* rounding.                                                               *)
(***************************************************************************)
EXTENDS Integers, Sequences, FiniteSets, TLC

----------------------------------------------------------------------------
(* Bounds of the model. *)

\* signals created by all producers together in the aggregator specification
MaxSignals == 3
\* signals created in the confirmation-window specification
MaxConfirmSignals == 11
\* how far into a run of the confirmation-window specification a signal of the
\* second asset may come
MaxOtherAssetSignals == 2
\* signals created in the weight-update specification
MaxWeightSignals == 2
\* calls of update_weights in the weight-update specification
MaxUpdates == 2
\* signals created in the high-priority specification
MaxHighPrioritySignals == 3
\* iterations of CorrelationEngine.run_loop
MaxTicks == 4
\* iterations of run_loop in the run_loop specification
MaxIterations == 3
\* signals the session-holding producers submit in a run
MaxProducerSignals == 2
\* signals submitted in the malformed-signal specification
MaxMalformedSignals == 3
\* cycles of WeightOptimizer.run_loop
MaxCycles == 2
\* PairCreated events dispatched, listeners registered and swap signals parsed
\* in the PairCreated specification
MaxPairEvents == 2
MaxListeners == 2
MaxPairSignals == 1
MaxDbCalls == 1
MaxManagers == 2
MaxTouches == 6
MaxAnnouncements == 3
MaxExecutorSignals == 22
MaxInFlight == 2
MaxTaskSteps == 2

----------------------------------------------------------------------------
(* Exact rational arithmetic standing for Python float arithmetic. *)

Rat(n, d) == <<n, d>>
RInt(n) == <<n, 1>>
RMul(a, b) == <<a[1] * b[1], a[2] * b[2]>>
RSub(a, b) == <<a[1] * b[2] - b[1] * a[2], a[2] * b[2]>>
RAdd(a, b) == <<a[1] * b[2] + b[1] * a[2], a[2] * b[2]>>
\* a / b for b > 0 (the model never divides by a non-positive value)
RDiv(a, b) == <<a[1] * b[2], a[2] * b[1]>>
RAbs(a) == <<IF a[1] < 0 THEN -a[1] ELSE a[1], a[2]>>
RLt(a, b) == a[1] * b[2] < b[1] * a[2]
RGt(a, b) == RLt(b, a)
REq(a, b) == a[1] * b[2] = b[1] * a[2]
RMin(a, b) == IF RLt(b, a) THEN b ELSE a

----------------------------------------------------------------------------
(* Python dicts as functions whose DOMAIN is the set of keys. *)

EmptyDict == [k \in {} |-> 0]
DictSet(d, k, v) == [x \in (DOMAIN d) \cup {k} |-> IF x = k THEN v ELSE d[x]]
DictPop(d, k) == [x \in (DOMAIN d) \ {k} |-> d[x]]
\* dict.get(k, default)
DictGet(d, k, default) == IF k \in DOMAIN d THEN d[k] ELSE default

\* what a lookup leaves in the defaultdict signal_weights: subscription of a
\* missing key would store the default factory's 0.1 under it; the lookup of
\* _process_signal is .get(type, 0.1), which stores nothing
WeightsAfterGetItem(weights, type) ==
    [x \in (DOMAIN weights) \cup {type} |-> IF x \in DOMAIN weights THEN weights[x] ELSE <<1, 10>>]

WeightsAfterLookup(weights, type) == weights

VARIABLES
    \* ---- AdvancedSignalAggregator
    signal_queue,           \* asyncio.Queue: the pending signals, oldest first
    unfinished_tasks,       \* asyncio.Queue's count of unfinished tasks
    signal_weights,         \* dict: signal type -> weight
    recent_signals_buffer,  \* dict: asset -> list of recent signals
    aggPc,                  \* where run_aggregator_loop is: get / process / sleep / stopped
    inflight,               \* the signals dequeued and not yet through _process_signal
    aggExit,                \* how the loop ended: "" / "break" / "propagated"
    compositeLog,           \* the calls of _update_composite_signal, in order
    redis,                  \* self.redis: "None" or "client"
    published,              \* the messages published on "high-priority-signals"
    composite_scores,       \* dict: asset -> composite score, the state that
                            \* _update_composite_signal is there to update
    \* ---- producers
    gatherTasks,            \* whale watcher: the submit_signal tasks of its pending gather
    event_listeners,        \* whale watcher: dict event type -> list of callbacks
    dispatchTasks,          \* whale watcher: the _dispatch_event tasks created and not yet run
    producerPc,             \* per session-holding producer, where its run_loop is:
                            \* "start" / "scan" / "idle" / "sleep", or how it ended:
                            \* "break" / "propagated"
    session,                \* per session-holding producer, self.session:
                            \* "None" / "open" / "closed"
    known_announcements,    \* listing scanner: the titles already acted on
    pendingAnnouncements,   \* listing scanner: the submit_high_priority_signal calls
                            \* that are waiting for publish to return
    protocol_touch_state,   \* VC watcher: dict protocol address -> set of VC names
    \* ---- TradeExecutor (paper mode)
    paper_balance_usd,      \* the virtual balance, in USD
    paper_positions,        \* dict market symbol -> the open paper position
    execTasks,              \* the _handle_signal tasks spawned and not finished: how
                            \* many wait for fetch_ticker (per asset), how many for
                            \* the database
    \* ---- DBManager and main
    cls_pool,               \* the class attribute DBManager._pool: 0 (None) or a pool number
    pools,                  \* the pools created so far: "open" / "closed", by number
    managers,               \* the DBManager objects created: their self._pool (0 is None)
    dbCall,                 \* the execute_with_retry / fetch_with_retry call in progress
    mainPc,                 \* where main is: "start" / "running" (in its gather) /
                            \* "interrupted" / "finally" / "closing_db" / "gathering" /
                            \* "done"
    taskState,              \* per component task of main: "unscheduled" / "running" /
                            \* "cancelling" / "done"
    \* ---- CorrelationEngine
    cointegrated_groups,    \* list of group dicts
    active_positions,       \* dict: group name -> "SHORT" / "LONG"
    loop_count,             \* run_loop's counter
    loopPc,                 \* where run_loop is: "try" / "sleep", or how it ended:
                            \* "cancelled" / "raised"
    \* ---- history (not program state)
    nextId,                 \* number of the next signal object created
    submitLog,              \* the signals in the order submit_signal ran for them
    gatherLog,              \* ids of gathered signals in the order gather was given them
    handedLog,              \* ids in the order they were handed to _process_signal
    updateLog,              \* the calls of update_weights: their argument and how many
                            \* signals had been handed to _process_signal before
    optLog,                 \* the cycles of WeightOptimizer.optimize_weights: the weights
                            \* produced and how the cycle ended
    deliveryLog,            \* the calls of event listeners: the callback, the event
                            \* data and what the callback did
    announceLog,            \* the calls of submit_high_priority_signal made by the
                            \* scanner: the title and the number of the signal
    touchLog,               \* the touches _analyze_transaction recorded: the VC, the
                            \* protocol and the number of the signal sent (0: none)
    tradeLog,               \* how many paper trades were executed and how many were
                            \* refused for insufficient funds
    dbLog,                  \* the finished calls of execute_with_retry / fetch_with_retry
    dbUseLog,               \* the steps of component tasks: the task, the kind of
                            \* step and the state of the pool when it ran
    hpLog,                  \* the calls of submit_high_priority_signal and how each ended
    scanLog                 \* per iteration of run_loop: what discovery did, the group
                            \* list and prices of the scan, the z-score of each group
                            \* evaluated, the signals submitted, the positions before
                            \* and after, the exception that ended the scan

aggVars == <<signal_queue, unfinished_tasks, signal_weights, recent_signals_buffer,
             aggPc, inflight, aggExit, compositeLog>>
prodVars == <<gatherTasks>>
hpVars == <<redis, published, hpLog>>
engVars == <<cointegrated_groups, active_positions, loop_count, loopPc>>
histVars == <<nextId, submitLog, gatherLog, handedLog, scanLog>>
sessVars == <<producerPc, session>>
pairVars == <<event_listeners, dispatchTasks, deliveryLog>>
sideVars == <<composite_scores, sessVars, pairVars, optLog>>
annVars == <<known_announcements, pendingAnnouncements, announceLog>>
vcVars == <<protocol_touch_state, touchLog>>
execVars == <<paper_balance_usd, paper_positions, execTasks, tradeLog>>
dbVars == <<cls_pool, pools, managers, dbCall, dbLog>>
mainVars == <<mainPc, taskState, dbUseLog>>
outerVars == <<annVars, vcVars, execVars, dbVars, mainVars>>
vars == <<aggVars, hpVars, prodVars, engVars, histVars, updateLog, sideVars, outerVars>>

----------------------------------------------------------------------------
(* Signals.  A signal is a dict; the field id is not a field of the program's *)
(* dict, it names the signal object so that two equal dicts stay apart.       *)

RequiredFields == {"type", "asset", "strength", "direction"}

\* the default weight table of __init__
DefaultWeights ==
    [t \in {"WHALE_TRADE", "CEX_LISTING_ARBITRAGE", "NARRATIVE_ROTATION",
            "LIQUIDITY_FLOW", "DERIVATIVES_FEAR", "STABLECOIN_DEPEG_RISK",
            "GAS_PRICE_ANOMALY"} |->
        CASE t = "WHALE_TRADE" -> Rat(25, 100)
          [] t = "CEX_LISTING_ARBITRAGE" -> Rat(100, 100)
          [] t = "NARRATIVE_ROTATION" -> Rat(15, 100)
          [] t = "LIQUIDITY_FLOW" -> Rat(20, 100)
          [] t = "DERIVATIVES_FEAR" -> Rat(10, 100)
          [] t = "STABLECOIN_DEPEG_RISK" -> Rat(80, 100)
          [] OTHER -> Rat(5, 100)]

\* the default of signal_weights.get(type, 0.1)
FallbackWeight == Rat(1, 10)
\* the confirmation boost, 1.25
BoostFactor == Rat(125, 100)
\* the length recent_signals_buffer[asset] is cut to
BufferLimit == 10


Max(a, b) == IF a > b THEN a ELSE b

\* self.paper_balance_usd = 10000.0 and trade_size_usd = 500.0
StartingBalance == 10000
TradeSize == 500

\* the assets of the listing signals the executor receives
ListedSymbols == {"XYZ", "ABC"}

\* no call of execute_with_retry / fetch_with_retry is in progress
IdleCall ==
    [kind |-> "", manager |-> 0, retries |-> 0, attempt |-> 0, outcomes |-> <<>>,
     state |-> "idle"]

\* component tasks of main that use the database manager or not
Components == {"whale_watcher", "weight_optimizer", "cex_scanner"}

\* the producers that hold an aiohttp session (self.session)
Producers == {"cex_scanner", "stablecoin_monitor", "narrative_tracker"}

\* (mutant) list[:n], the oldest entries
FirstN(list, n) == SubSeq(list, 1, IF Len(list) < n THEN Len(list) ELSE n)

\* list[-n:]
LastN(list, n) == SubSeq(list, Max(1, Len(list) - n + 1), Len(list))

\* list[:-1]
AllButLast(list) == SubSeq(list, 1, Len(list) - 1)

----------------------------------------------------------------------------
(* AdvancedSignalAggregator *)

\* maxsize of asyncio.Queue(): 0, no limit
QueueMaxsize == 0

\* (mutant) a queue of maxsize 1
QueueFullAtOne(queue) == Len(queue) >= 1

\* asyncio.Queue.full: never with maxsize <= 0; put waits while the queue is full
QueueFull(queue) == IF QueueMaxsize <= 0 THEN FALSE ELSE Len(queue) >= QueueMaxsize

\* (mutant) a queue of size 1 whose overflow is dropped
QueuePutLossy(queue, signal) == IF Len(queue) >= 1 THEN queue ELSE Append(queue, signal)

\* asyncio.Queue.put on the unbounded queue of __init__: never waits
QueuePut(queue, signal) == Append(queue, signal)

\* (mutant) one buffer for all assets: any other buffered signal can confirm
CheckForConfirmationAnyAsset(buffer, signal) ==
    LET asset == signal.asset
        direction == signal.direction
        appended == Append(DictGet(buffer, asset, <<>>), signal)
        cut == LastN(appended, BufferLimit)
        after == DictSet(buffer, asset, cut)
    IN  [buffer |-> after,
         confirmed |-> \E a \in DOMAIN after : \E i \in 1..Len(after[a]) :
                          after[a][i].id # signal.id /\ after[a][i].direction = direction]

\* _check_for_confirmation: the signal is appended and the list cut to its
\* last BufferLimit entries before the other entries are compared
CheckForConfirmation(buffer, signal) ==
    LET asset == signal.asset
        direction == signal.direction
        appended == Append(DictGet(buffer, asset, <<>>), signal)
        cut == LastN(appended, BufferLimit)
        others == AllButLast(cut)
    IN  [buffer |-> DictSet(buffer, asset, cut),
         confirmed |-> \E i \in 1..Len(others) : others[i].direction = direction]

\* (mutant) the weight is read from the table of __init__, not from the live one
ApplyWeightInitTable(weights, signal) ==
    RMul(signal.strength, DictGet(DefaultWeights, signal.type, FallbackWeight))

\* weighted_strength = signal['strength'] * self.signal_weights.get(signal['type'], 0.1)
ApplyWeight(weights, signal) ==
    RMul(signal.strength, DictGet(weights, signal.type, FallbackWeight))

\* weighted_strength *= 1.25
Boost(weighted_strength) == RMul(weighted_strength, BoostFactor)

\* (mutant) no log line at the top: a dict with asset and direction is buffered
\* before the missing field is read
ProcessSignalBufferFirst(weights, buffer, signal) ==
    IF ~(RequiredFields \subseteq DOMAIN signal)
    THEN [raised |-> TRUE,
          buffer |-> IF {"asset", "direction"} \subseteq DOMAIN signal
                     THEN CheckForConfirmation(buffer, signal).buffer ELSE buffer,
          composite |-> <<>>]
    ELSE LET weighted == ApplyWeight(weights, signal)
             check == CheckForConfirmation(buffer, signal)
             final == IF check.confirmed THEN Boost(weighted) ELSE weighted
         IN  [raised |-> FALSE,
              buffer |-> check.buffer,
              composite |-> <<[id |-> signal.id, asset |-> signal.asset,
                               weighted_strength |-> final,
                               direction |-> signal.direction]>>]

\* _process_signal: the log line reads type, asset, direction and strength, so a
\* dict lacking one of them raises KeyError before anything is changed
ProcessSignal(weights, buffer, signal) ==
    IF ~(RequiredFields \subseteq DOMAIN signal)
    THEN [raised |-> TRUE, buffer |-> buffer, composite |-> <<>>]
    ELSE LET weighted == ApplyWeight(weights, signal)
             check == CheckForConfirmation(buffer, signal)
             final == IF check.confirmed THEN Boost(weighted) ELSE weighted
         IN  [raised |-> FALSE,
              buffer |-> check.buffer,
              composite |-> <<[id |-> signal.id, asset |-> signal.asset,
                               weighted_strength |-> final,
                               direction |-> signal.direction]>>]

\* _update_composite_signal: writes a debug line; the update of the score "in
\* Redis or a database" is a comment, so the scores are what they were
UpdateCompositeSignal(scores, call) == scores

\* submit_signal, run for `signal`
SubmitSignalBody(signal) ==
    /\ ~QueueFull(signal_queue)
    /\ signal_queue' = QueuePut(signal_queue, signal)
    /\ unfinished_tasks' = unfinished_tasks + 1
    /\ submitLog' = Append(submitLog, signal)

\* a producer awaits submit_signal(s) directly
SubmitSignal(s) ==
    /\ SubmitSignalBody([x \in (DOMAIN s) \cup {"id"} |-> IF x = "id" THEN nextId ELSE s[x]])
    /\ nextId' = nextId + 1
    /\ UNCHANGED <<outerVars, sideVars, hpVars, updateLog, signal_weights, recent_signals_buffer, aggPc, inflight, aggExit,
                   compositeLog, prodVars, engVars, gatherLog, handedLog, scanLog>>

\* whale watcher, process_callback_queue: the parsed signals of one webhook item
\* become submit_signal tasks of one asyncio.gather, which it awaits
ProcessCallbackQueue(parsed_signals) ==
    /\ gatherTasks = <<>>
    /\ parsed_signals # <<>>
    /\ gatherTasks' = [i \in 1..Len(parsed_signals) |->
            [x \in (DOMAIN parsed_signals[i]) \cup {"id"} |->
                IF x = "id" THEN nextId + i - 1 ELSE parsed_signals[i][x]]]
    /\ gatherLog' = gatherLog \o [i \in 1..Len(parsed_signals) |-> nextId + i - 1]
    /\ nextId' = nextId + Len(parsed_signals)
    /\ UNCHANGED <<outerVars, sideVars, hpVars, updateLog, aggVars, engVars, submitLog, handedLog, scanLog>>

\* the event loop starts the tasks of a gather in the order they were created
GatherTaskStep ==
    /\ gatherTasks # <<>>
    /\ SubmitSignalBody(Head(gatherTasks))
    /\ gatherTasks' = Tail(gatherTasks)
    /\ UNCHANGED <<outerVars, sideVars, hpVars, updateLog, signal_weights, recent_signals_buffer, aggPc, inflight, aggExit,
                   compositeLog, engVars, nextId, gatherLog, handedLog, scanLog>>

\* (mutant) the consumer takes the newest pending signal
AggGetNewest ==
    /\ aggPc = "get"
    /\ signal_queue # <<>>
    /\ inflight' = inflight \cup {signal_queue[Len(signal_queue)]}
    /\ signal_queue' = AllButLast(signal_queue)
    /\ aggPc' = "process"
    /\ UNCHANGED <<outerVars, sideVars, hpVars, updateLog, unfinished_tasks, signal_weights, recent_signals_buffer, aggExit,
                   compositeLog, prodVars, engVars, histVars>>

\* run_aggregator_loop: signal = await self.signal_queue.get()
AggGet ==
    /\ aggPc = "get"
    /\ signal_queue # <<>>
    /\ inflight' = inflight \cup {Head(signal_queue)}
    /\ signal_queue' = Tail(signal_queue)
    /\ aggPc' = "process"
    /\ UNCHANGED <<outerVars, sideVars, hpVars, updateLog, unfinished_tasks, signal_weights, recent_signals_buffer, aggExit,
                   compositeLog, prodVars, engVars, histVars>>

\* (mutant) no handler around _process_signal: an exception ends the loop
AggProcessNoHandler ==
    /\ aggPc = "process"
    /\ \E signal \in inflight :
        LET r == ProcessSignal(signal_weights, recent_signals_buffer, signal)
        IN  /\ inflight' = inflight \ {signal}
            /\ handedLog' = Append(handedLog, signal.id)
            /\ recent_signals_buffer' = r.buffer
            /\ compositeLog' = compositeLog \o r.composite
            /\ composite_scores' = IF r.raised THEN composite_scores
                                    ELSE UpdateCompositeSignal(composite_scores, r.composite[1])
            /\ unfinished_tasks' = IF r.raised THEN unfinished_tasks ELSE unfinished_tasks - 1
            /\ aggPc' = IF r.raised THEN "stopped" ELSE "get"
    /\ UNCHANGED <<outerVars, sessVars, pairVars, optLog, hpVars, updateLog, signal_queue, signal_weights,
                   aggExit, prodVars, engVars, nextId, submitLog, gatherLog, scanLog>>

\* run_aggregator_loop: await self._process_signal(signal); task_done(); on an
\* exception the handler logs and sleeps, and task_done() is not reached
AggProcess ==
    /\ aggPc = "process"
    /\ \E signal \in inflight :
        LET r == ProcessSignal(signal_weights, recent_signals_buffer, signal)
        IN  /\ inflight' = inflight \ {signal}
            /\ signal_weights' = IF r.raised THEN signal_weights
                                  ELSE WeightsAfterLookup(signal_weights, signal.type)
            /\ handedLog' = Append(handedLog, signal.id)
            /\ recent_signals_buffer' = r.buffer
            /\ compositeLog' = compositeLog \o r.composite
            /\ composite_scores' = IF r.raised THEN composite_scores
                                    ELSE UpdateCompositeSignal(composite_scores, r.composite[1])
            /\ unfinished_tasks' = IF r.raised THEN unfinished_tasks ELSE unfinished_tasks - 1
            /\ aggPc' = IF r.raised THEN "sleep" ELSE "get"
    /\ UNCHANGED <<outerVars, sessVars, pairVars, optLog, hpVars, updateLog, signal_queue,
                   aggExit, prodVars, engVars, nextId, submitLog, gatherLog, scanLog>>

\* run_aggregator_loop: await asyncio.sleep(1) in the handler returns
AggWake ==
    /\ aggPc = "sleep"
    /\ aggPc' = "get"
    /\ UNCHANGED <<outerVars, sideVars, hpVars, updateLog, signal_queue, unfinished_tasks, signal_weights, recent_signals_buffer,
                   inflight, aggExit, compositeLog, prodVars, engVars, histVars>>

\* the consumer task is cancelled: CancelledError is raised at the await it is
\* suspended in; in the try block it breaks the loop, in the handler's sleep it
\* leaves the coroutine
AggCancel ==
    /\ aggPc \in {"get", "sleep"}
    /\ aggExit' = IF aggPc = "get" THEN "break" ELSE "propagated"
    /\ aggPc' = "stopped"
    /\ UNCHANGED <<outerVars, sideVars, hpVars, updateLog, signal_queue, unfinished_tasks, signal_weights, recent_signals_buffer,
                   inflight, compositeLog, prodVars, engVars, histVars>>

\* the type of the submitted signal numbered id
SubmittedSignalType(id) ==
    (CHOOSE s \in {submitLog[k] : k \in 1..Len(submitLog)} : s.id = id).type

\* dict.update(new): the keys of new are set, every other key keeps its value
DictUpdate(dict, new) ==
    [k \in (DOMAIN dict) \cup (DOMAIN new) |-> IF k \in DOMAIN new THEN new[k] ELSE dict[k]]

\* (mutant) the update also rescales the composite entries computed before it
UpdateWeightsRescore(new_weights) ==
    /\ signal_weights' = DictUpdate(signal_weights, new_weights)
    /\ compositeLog' = [i \in 1..Len(compositeLog) |->
            [compositeLog[i] EXCEPT !.weighted_strength =
                RMul(@, DictGet(new_weights, SubmittedSignalType(compositeLog[i].id), RInt(1)))]]
    /\ updateLog' = Append(updateLog, [new_weights |-> new_weights,
                                       handed |-> Len(handedLog),
                                       submitted |-> Len(submitLog)])
    /\ UNCHANGED <<outerVars, sideVars, hpVars, signal_queue, unfinished_tasks, recent_signals_buffer, aggPc,
                   inflight, aggExit, prodVars, engVars, histVars>>

\* update_weights: a plain method without an await; it updates the live table
\* in one step of the event loop
UpdateWeights(new_weights) ==
    /\ signal_weights' = DictUpdate(signal_weights, new_weights)
    /\ updateLog' = Append(updateLog, [new_weights |-> new_weights,
                                       handed |-> Len(handedLog),
                                       submitted |-> Len(submitLog)])
    /\ UNCHANGED <<outerVars, sideVars, hpVars, signal_queue, unfinished_tasks, recent_signals_buffer, aggPc,
                   inflight, aggExit, compositeLog, prodVars, engVars, histVars>>

\* (mutant) no handler around publish: its exception leaves the call
HighPriorityOutcomeNoHandler(client, signal, publish) ==
    IF client = "None"
    THEN [published |-> <<>>, attempts |-> 0, log |-> "warning", raised |-> FALSE]
    ELSE IF publish = "raises"
    THEN [published |-> <<>>, attempts |-> 1, log |-> "", raised |-> TRUE]
    ELSE IF {"type", "asset"} \subseteq DOMAIN signal
    THEN [published |-> <<signal>>, attempts |-> 1, log |-> "critical", raised |-> FALSE]
    ELSE [published |-> <<signal>>, attempts |-> 1, log |-> "error", raised |-> FALSE]

\* what one call of submit_high_priority_signal does: the messages it gets
\* published, how often it calls publish, the level of its log line, and whether
\* an exception leaves it.  Without a client it warns; publish is awaited once
\* inside try/except Exception; the log line after publish reads type and asset,
\* and its KeyError is caught by the same handler
HighPriorityOutcome(client, signal, publish) ==
    IF client = "None"
    THEN [published |-> <<>>, attempts |-> 0, log |-> "warning", raised |-> FALSE]
    ELSE IF publish = "raises"
    THEN [published |-> <<>>, attempts |-> 1, log |-> "error", raised |-> FALSE]
    ELSE IF {"type", "asset"} \subseteq DOMAIN signal
    THEN [published |-> <<signal>>, attempts |-> 1, log |-> "critical", raised |-> FALSE]
    ELSE [published |-> <<signal>>, attempts |-> 1, log |-> "error", raised |-> FALSE]

\* (mutant) a signal that could not be published is put on the normal queue
SubmitHighPriorityFallback(s, publish) ==
    LET signal == [x \in (DOMAIN s) \cup {"id"} |-> IF x = "id" THEN nextId ELSE s[x]]
        out == HighPriorityOutcome(redis, signal, publish)
    IN  /\ published' = published \o out.published
        /\ hpLog' = Append(hpLog, [id |-> nextId,
                                   publish |-> IF redis = "None" THEN "none" ELSE publish,
                                   attempts |-> out.attempts,
                                   log |-> out.log,
                                   raised |-> out.raised])
        /\ nextId' = nextId + 1
        /\ signal_queue' = IF out.published = <<>> THEN QueuePut(signal_queue, signal)
                           ELSE signal_queue
        /\ unfinished_tasks' = IF out.published = <<>> THEN unfinished_tasks + 1
                               ELSE unfinished_tasks
        /\ submitLog' = IF out.published = <<>> THEN Append(submitLog, signal) ELSE submitLog
        /\ UNCHANGED <<outerVars, sideVars, redis, signal_weights, recent_signals_buffer, aggPc, inflight, aggExit,
                       compositeLog, prodVars, engVars, gatherLog, handedLog,
                       scanLog, updateLog>>

\* a producer awaits submit_high_priority_signal(s); publish is the outcome of
\* the client's publish call when there is a client
SubmitHighPriority(s, publish) ==
    LET signal == [x \in (DOMAIN s) \cup {"id"} |-> IF x = "id" THEN nextId ELSE s[x]]
        out == HighPriorityOutcome(redis, signal, publish)
    IN  /\ published' = published \o out.published
        /\ hpLog' = Append(hpLog, [id |-> nextId,
                                   publish |-> IF redis = "None" THEN "none" ELSE publish,
                                   attempts |-> out.attempts,
                                   log |-> out.log,
                                   raised |-> out.raised])
        /\ nextId' = nextId + 1
        /\ UNCHANGED <<outerVars, sideVars, redis, aggVars, prodVars, engVars, submitLog, gatherLog, handedLog,
                       scanLog, updateLog>>

----------------------------------------------------------------------------
(* CorrelationEngine *)

\* run_loop runs discovery when loop_count % 1440 == 0
DiscoveryPeriod == 1440

\* the group set _find_cointegrated_groups assigns
NewlyFoundGroups ==
    <<[name |-> "BTC_vs_Stock_Proxies",
       assets |-> <<"BTC", "MSTR", "COIN">>,
       hedge_ratios |-> [MSTR |-> Rat(1, 10), COIN |-> Rat(5, 1)],
       spread_mean |-> Rat(150, 1),
       spread_std |-> Rat(75, 1)]>>

\* the thresholds written in _monitor_spreads
EntryThreshold == Rat(25, 10)
ExitThresholdShort == Rat(5, 10)
ExitThresholdLong == Rat(-5, 10)
RNeg(a) == <<-a[1], a[2]>>

\* the strength cap and divisor of _create_pairs_trade_signal
StrengthCap == Rat(9, 10)
StrengthDivisor == RInt(3)

\* current_spread of _monitor_spreads
CurrentSpread(group, live_prices) ==
    LET assets == group.assets
    IN  RSub(live_prices[assets[1]],
             RAdd(RMul(group.hedge_ratios[assets[2]], live_prices[assets[2]]),
                  RMul(group.hedge_ratios[assets[3]], live_prices[assets[3]])))

\* z_score of _monitor_spreads
ZScore(group, live_prices) ==
    RDiv(RSub(CurrentSpread(group, live_prices), group.spread_mean), group.spread_std)

\* (mutant) the strength is not capped
CreatePairsTradeSignalUncapped(group, direction, z_score) ==
    [type |-> "STATISTICAL_ARBITRAGE",
     asset |-> group.name,
     strength |-> RDiv(RAbs(z_score), StrengthDivisor),
     direction |-> direction]

\* _create_pairs_trade_signal (metadata is never read by the aggregator)
CreatePairsTradeSignal(group, direction, z_score) ==
    [type |-> "STATISTICAL_ARBITRAGE",
     asset |-> group.name,
     strength |-> RMin(RDiv(RAbs(z_score), StrengthDivisor), StrengthCap),
     direction |-> direction]

\* (mutant) the entry comparisons include the threshold itself
EntryStepInclusive(st, group, z_score) ==
    IF ~RLt(z_score, EntryThreshold)
    THEN [st EXCEPT !.positions = DictSet(@, group.name, "SHORT"),
                    !.submitted = Append(@, CreatePairsTradeSignal(group, "ENTER_SHORT", z_score))]
    ELSE IF ~RGt(z_score, RNeg(EntryThreshold))
    THEN [st EXCEPT !.positions = DictSet(@, group.name, "LONG"),
                    !.submitted = Append(@, CreatePairsTradeSignal(group, "ENTER_LONG", z_score))]
    ELSE st

\* (mutant) the entry threshold is 3.0
EntryStepThreeSigma(st, group, z_score) ==
    IF RGt(z_score, RInt(3))
    THEN [st EXCEPT !.positions = DictSet(@, group.name, "SHORT"),
                    !.submitted = Append(@, CreatePairsTradeSignal(group, "ENTER_SHORT", z_score))]
    ELSE IF RLt(z_score, RInt(-3))
    THEN [st EXCEPT !.positions = DictSet(@, group.name, "LONG"),
                    !.submitted = Append(@, CreatePairsTradeSignal(group, "ENTER_LONG", z_score))]
    ELSE st

\* (mutant) the entry signal is sent but the position is not recorded
EntryStepUnrecorded(st, group, z_score) ==
    IF RGt(z_score, EntryThreshold)
    THEN [st EXCEPT !.submitted = Append(@, CreatePairsTradeSignal(group, "ENTER_SHORT", z_score))]
    ELSE IF RLt(z_score, RNeg(EntryThreshold))
    THEN [st EXCEPT !.submitted = Append(@, CreatePairsTradeSignal(group, "ENTER_LONG", z_score))]
    ELSE st

\* the entry branch of _monitor_spreads (position is None)
EntryStep(st, group, z_score) ==
    IF RGt(z_score, EntryThreshold)
    THEN [st EXCEPT !.positions = DictSet(@, group.name, "SHORT"),
                    !.submitted = Append(@, CreatePairsTradeSignal(group, "ENTER_SHORT", z_score))]
    ELSE IF RLt(z_score, RNeg(EntryThreshold))
    THEN [st EXCEPT !.positions = DictSet(@, group.name, "LONG"),
                    !.submitted = Append(@, CreatePairsTradeSignal(group, "ENTER_LONG", z_score))]
    ELSE st

\* (mutant) the LONG exit compares with +0.5 like the SHORT exit
ExitStepSameSign(st, group, z_score, position) ==
    IF position = "SHORT" /\ RLt(z_score, ExitThresholdShort)
    THEN [st EXCEPT !.positions = DictPop(@, group.name),
                    !.submitted = Append(@, CreatePairsTradeSignal(group, "EXIT_SHORT", z_score))]
    ELSE IF position = "LONG" /\ RGt(z_score, ExitThresholdShort)
    THEN [st EXCEPT !.positions = DictPop(@, group.name),
                    !.submitted = Append(@, CreatePairsTradeSignal(group, "EXIT_LONG", z_score))]
    ELSE st

\* (mutant) a position is closed only while |z| is below the exit threshold
ExitStepBand(st, group, z_score, position) ==
    IF position = "SHORT" /\ RLt(RAbs(z_score), ExitThresholdShort)
    THEN [st EXCEPT !.positions = DictPop(@, group.name),
                    !.submitted = Append(@, CreatePairsTradeSignal(group, "EXIT_SHORT", z_score))]
    ELSE IF position = "LONG" /\ RLt(RAbs(z_score), ExitThresholdShort)
    THEN [st EXCEPT !.positions = DictPop(@, group.name),
                    !.submitted = Append(@, CreatePairsTradeSignal(group, "EXIT_LONG", z_score))]
    ELSE st

\* the exit branch of _monitor_spreads (a position is open)
ExitStep(st, group, z_score, position) ==
    IF position = "SHORT" /\ RLt(z_score, ExitThresholdShort)
    THEN [st EXCEPT !.positions = DictPop(@, group.name),
                    !.submitted = Append(@, CreatePairsTradeSignal(group, "EXIT_SHORT", z_score))]
    ELSE IF position = "LONG" /\ RGt(z_score, ExitThresholdLong)
    THEN [st EXCEPT !.positions = DictPop(@, group.name),
                    !.submitted = Append(@, CreatePairsTradeSignal(group, "EXIT_LONG", z_score))]
    ELSE st

\* (mutant) the entry conditions are tried again right after an exit
MonitorGroupReenter(st, group, live_prices) ==
    LET z_score == ZScore(group, live_prices)
        position == DictGet(st.positions, group.name, "None")
        seen == [st EXCEPT !.zs = Append(@, [group |-> group.name, z |-> z_score])]
        left == ExitStep(seen, group, z_score, position)
    IN  IF position = "None"
        THEN EntryStep(seen, group, z_score)
        ELSE IF group.name \in DOMAIN left.positions
        THEN left
        ELSE EntryStep(left, group, z_score)

\* the body of the for loop of _monitor_spreads for one group
MonitorGroup(st, group, live_prices) ==
    LET z_score == ZScore(group, live_prices)
        position == DictGet(st.positions, group.name, "None")
        seen == [st EXCEPT !.zs = Append(@, [group |-> group.name, z |-> z_score])]
    IN  IF position = "None"
        THEN EntryStep(seen, group, z_score)
        ELSE ExitStep(seen, group, z_score, position)

\* the exception the spread and z-score lines of _monitor_spreads raise for a
\* group, "" if none: the lines read assets[0], assets[1] and assets[2] and their
\* prices and hedge ratios, then divide by spread_std
ScanError(group, live_prices) ==
    LET assets == group.assets
    IN  IF Len(assets) < 1 THEN "IndexError"
        ELSE IF assets[1] \notin DOMAIN live_prices THEN "KeyError"
        ELSE IF Len(assets) < 2 THEN "IndexError"
        ELSE IF assets[2] \notin DOMAIN group.hedge_ratios \/ assets[2] \notin DOMAIN live_prices
        THEN "KeyError"
        ELSE IF Len(assets) < 3 THEN "IndexError"
        ELSE IF assets[3] \notin DOMAIN group.hedge_ratios \/ assets[3] \notin DOMAIN live_prices
        THEN "KeyError"
        ELSE IF group.spread_std[1] = 0 THEN "ZeroDivisionError"
        ELSE ""

\* (mutant) a group whose lines raise is skipped and the scan goes on
RECURSIVE MonitorSpreadsFromSkipping(_, _, _, _)
MonitorSpreadsFromSkipping(i, st, groups, live_prices) ==
    IF i > Len(groups)
    THEN st
    ELSE IF ScanError(groups[i], live_prices) # ""
    THEN MonitorSpreadsFromSkipping(i + 1, st, groups, live_prices)
    ELSE MonitorSpreadsFromSkipping(i + 1, MonitorGroup(st, groups[i], live_prices),
                                    groups, live_prices)

\* _monitor_spreads: the groups in list order, from index i on; there is no
\* try in the for loop, so the first exception ends the scan
RECURSIVE MonitorSpreadsFrom(_, _, _, _)
MonitorSpreadsFrom(i, st, groups, live_prices) ==
    IF i > Len(groups)
    THEN st
    ELSE IF ScanError(groups[i], live_prices) # ""
    THEN [st EXCEPT !.raised = ScanError(groups[i], live_prices), !.raisedAt = groups[i].name]
    ELSE MonitorSpreadsFrom(i + 1, MonitorGroup(st, groups[i], live_prices), groups, live_prices)

MonitorSpreads(positions, groups, live_prices) ==
    MonitorSpreadsFrom(1, [positions |-> positions, submitted |-> <<>>, zs |-> <<>>,
                           raised |-> "", raisedAt |-> ""],
                       groups, live_prices)

\* (mutant) discovery extends the list it finds in place
FindCointegratedGroupsExtend(current, newly_found_groups) == current \o newly_found_groups

\* _find_cointegrated_groups: self.cointegrated_groups = newly_found_groups
FindCointegratedGroups(current, newly_found_groups) == newly_found_groups

\* (mutant) discovery starts from an empty position table
PositionsAfterDiscoveryReset(positions) == EmptyDict

\* _find_cointegrated_groups has no statement on active_positions
PositionsAfterDiscovery(positions) == positions

\* run_loop: loop_count += 1 is the last statement of the try block
LoopCountAfter(count, failed) == IF failed THEN count ELSE count + 1

\* the try block of run_loop for one iteration.  found is what discovery comes
\* to when it runs: the group list it assigns, or raised = TRUE when it raises
\* before the assignment
TryBlock(found, live_prices) ==
    LET due == loop_count % DiscoveryPeriod = 0
    IN  IF due /\ found.raised
        THEN [discovery |-> "raised", groups |-> cointegrated_groups, scanned |-> FALSE,
              scan |-> [positions |-> active_positions, submitted |-> <<>>, zs |-> <<>>,
                        raised |-> "", raisedAt |-> ""],
              failed |-> TRUE]
        ELSE LET groups == IF due
                           THEN FindCointegratedGroups(cointegrated_groups, found.groups)
                           ELSE cointegrated_groups
                 positions == IF due THEN PositionsAfterDiscovery(active_positions)
                              ELSE active_positions
                 scan == MonitorSpreads(positions, groups, live_prices)
             IN  [discovery |-> IF due THEN "ran" ELSE "none", groups |-> groups,
                  scanned |-> TRUE, scan |-> scan, failed |-> scan.raised # ""]

\* the state one iteration of run_loop leaves; every submit_signal of the scan
\* completes inside it (the queue is unbounded), also when a later group raises
ApplyIteration(found, live_prices, out) ==
    LET sent == [i \in 1..Len(out.scan.submitted) |->
                    [x \in (DOMAIN out.scan.submitted[i]) \cup {"id"} |->
                        IF x = "id" THEN nextId + i - 1 ELSE out.scan.submitted[i][x]]]
    IN  /\ cointegrated_groups' = out.groups
        /\ active_positions' = out.scan.positions
        /\ loop_count' = LoopCountAfter(loop_count, out.failed)
        /\ signal_queue' = signal_queue \o sent
        /\ unfinished_tasks' = unfinished_tasks + Len(sent)
        /\ submitLog' = submitLog \o sent
        /\ nextId' = nextId + Len(sent)
        /\ scanLog' = Append(scanLog, [zs |-> out.scan.zs, submitted |-> out.scan.submitted,
                                       positions |-> out.scan.positions,
                                       before |-> active_positions,
                                       loop_count |-> loop_count,
                                       discovery |-> out.discovery,
                                       found |-> IF out.discovery = "ran" THEN found.groups ELSE <<>>,
                                       groups |-> out.groups,
                                       live_prices |-> live_prices,
                                       scanned |-> out.scanned,
                                       raised |-> out.scan.raised,
                                       raisedAt |-> out.scan.raisedAt])
        /\ UNCHANGED <<outerVars, sideVars, hpVars, updateLog, signal_weights, recent_signals_buffer, aggPc,
                       inflight, aggExit, compositeLog, prodVars, gatherLog, handedLog>>

\* one iteration of run_loop with its sleep, discovery finding the group list
\* written in _find_cointegrated_groups
RunLoopTick(live_prices) ==
    /\ loopPc = "try"
    /\ ApplyIteration([raised |-> FALSE, groups |-> NewlyFoundGroups], live_prices,
                      TryBlock([raised |-> FALSE, groups |-> NewlyFoundGroups], live_prices))
    /\ loopPc' = loopPc

\* (mutant) no except clause: an exception of discovery or of the scan leaves
\* run_loop
RunLoopIterationNoHandler(found, live_prices) ==
    /\ loopPc = "try"
    /\ ApplyIteration(found, live_prices, TryBlock(found, live_prices))
    /\ loopPc' = IF TryBlock(found, live_prices).failed THEN "raised" ELSE "sleep"

\* one iteration of run_loop up to its sleep: the try block, and on an
\* exception the handler's log line; both paths reach await asyncio.sleep(60)
RunLoopIteration(found, live_prices) ==
    /\ loopPc = "try"
    /\ ApplyIteration(found, live_prices, TryBlock(found, live_prices))
    /\ loopPc' = "sleep"

\* run_loop: await asyncio.sleep(60) returns
RunLoopWake ==
    /\ loopPc = "sleep"
    /\ loopPc' = "try"
    /\ UNCHANGED <<outerVars, sideVars, aggVars, hpVars, prodVars, cointegrated_groups, active_positions,
                   loop_count, histVars, updateLog>>

\* the task of run_loop is cancelled: the only await that suspends is the
\* sleep, which is outside the try block, so CancelledError leaves run_loop
RunLoopCancel ==
    /\ loopPc = "sleep"
    /\ loopPc' = "cancelled"
    /\ UNCHANGED <<outerVars, sideVars, aggVars, hpVars, prodVars, cointegrated_groups, active_positions,
                   loop_count, histVars, updateLog>>

----------------------------------------------------------------------------
(* The state after construction, and the specifications. *)

\* the state after AdvancedSignalAggregator(config, db, redis_client) and
\* CorrelationEngine(config, db, signal_aggregator), or, with count > 0, the
\* state of a run_loop that has made count iterations without a failure, no
\* spread having left the hold band: the group list is the one discovery
\* assigned, no position is open and every queue is empty
InitState(redis_client, count, groups) ==
    /\ signal_queue = <<>>
    /\ unfinished_tasks = 0
    /\ signal_weights = DefaultWeights
    /\ recent_signals_buffer = EmptyDict
    /\ aggPc = "get"
    /\ inflight = {}
    /\ aggExit = ""
    /\ compositeLog = <<>>
    /\ gatherTasks = <<>>
    /\ cointegrated_groups = groups
    /\ active_positions = EmptyDict
    /\ loop_count = count
    /\ nextId = 1
    /\ submitLog = <<>>
    /\ gatherLog = <<>>
    /\ handedLog = <<>>
    /\ scanLog = <<>>
    /\ redis = redis_client
    /\ published = <<>>
    /\ loopPc = "try"
    /\ updateLog = <<>>
    /\ hpLog = <<>>
    /\ composite_scores = EmptyDict
    /\ event_listeners = EmptyDict
    /\ dispatchTasks = <<>>
    /\ deliveryLog = <<>>
    /\ producerPc = [p \in Producers |-> "start"]
    /\ session = [p \in Producers |-> "None"]
    /\ optLog = <<>>
    /\ known_announcements = {}
    /\ pendingAnnouncements = <<>>
    /\ announceLog = <<>>
    /\ protocol_touch_state = EmptyDict
    /\ touchLog = <<>>
    /\ paper_balance_usd = StartingBalance
    /\ paper_positions = EmptyDict
    /\ execTasks = [fetching |-> [s \in ListedSymbols |-> 0], logging |-> 0]
    /\ tradeLog = [executed |-> 0, insufficient |-> 0]
    /\ cls_pool = 0
    /\ pools = <<>>
    /\ managers = <<>>
    /\ dbCall = IdleCall
    /\ dbLog = <<>>
    /\ mainPc = "start"
    /\ taskState = [t \in Components |-> "unscheduled"]
    /\ dbUseLog = <<>>

\* the state after construction
InitWith(redis_client) == InitState(redis_client, 0, <<>>)

\* main.py constructs the aggregator with redis_client = None
Init == InitWith("None")

\* ---- inputs of the aggregator specification
Strength08 == Rat(8, 10)
DirectInputs ==
    {[type |-> "LIQUIDITY_FLOW", asset |-> "ETH", strength |-> Strength08, direction |-> "bullish"],
     [type |-> "LIQUIDITY_FLOW", asset |-> "ETH", strength |-> Strength08, direction |-> "bearish"],
     [type |-> "DERIVATIVES_GREED", asset |-> "BTC", strength |-> Strength08, direction |-> "bullish"],
     \* a dict that lacks `direction`
     [type |-> "LIQUIDITY_FLOW", asset |-> "ETH", strength |-> Strength08]}

WhaleSignal(asset) ==
    [type |-> "WHALE_TRADE", asset |-> asset, strength |-> Rat(9, 10), direction |-> "bearish"]
WhaleBatches ==
    {<<WhaleSignal("ETH")>>, <<WhaleSignal("ETH"), WhaleSignal("BTC")>>}

NextAgg ==
    \/ \E s \in DirectInputs : nextId <= MaxSignals /\ SubmitSignal(s)
    \/ \E b \in WhaleBatches : nextId + Len(b) - 1 <= MaxSignals /\ ProcessCallbackQueue(b)
    \/ GatherTaskStep
    \/ AggGet
    \/ AggProcess
    \/ AggWake
    \/ AggCancel

SpecAgg == Init /\ [][NextAgg]_vars

\* the event loop runs every ready task and the sleep timer fires
SpecAggFair ==
    /\ SpecAgg
    /\ WF_vars(AggGet) /\ WF_vars(AggProcess) /\ WF_vars(AggWake) /\ WF_vars(GatherTaskStep)

\* ---- inputs of the engine specification: the live prices of one scan.
\* _monitor_spreads reads them from a dict written in place of the call of
\* db.get_latest_prices (BTC 71000, MSTR 1600, COIN 250, z = 925.87 in every
\* scan); the model takes the prices as the input of the scan, that dict being
\* one of them.  The other BTC prices give z = 3, 1, -3, 0, 2.5, 0.5, -0.5, -2.5.
BtcPrices ==
    {RInt(71000), RInt(1785), RInt(1635), RInt(1335), RInt(1560),
     Rat(3495, 2), Rat(3195, 2), Rat(3045, 2), Rat(2745, 2)}
LivePriceInputs ==
    {[BTC |-> b, MSTR |-> RInt(1600), COIN |-> RInt(250)] : b \in BtcPrices}

NextEngine ==
    \E p \in LivePriceInputs : loop_count < MaxTicks /\ RunLoopTick(p)

SpecEngine == Init /\ [][NextEngine]_vars

\* ---- the weight-update specification: update_weights called by the model
\* updater while signals are waiting in the queue or being processed
WeightInputs ==
    {[X |-> Rat(42, 100)],
     [LIQUIDITY_FLOW |-> Rat(5, 10), X |-> Rat(3, 10)]}
WeightSignals ==
    {[type |-> "X", asset |-> "SOL", strength |-> RInt(1), direction |-> "bullish"],
     [type |-> "LIQUIDITY_FLOW", asset |-> "ETH", strength |-> Strength08, direction |-> "bullish"],
     [type |-> "LIQUIDITY_FLOW", asset |-> "SOL", strength |-> Strength08, direction |-> "bullish"],
     [type |-> "DERIVATIVES_GREED", asset |-> "BTC", strength |-> Strength08, direction |-> "bullish"]}

NextWeights ==
    \/ \E s \in WeightSignals : nextId <= MaxWeightSignals /\ SubmitSignal(s)
    \/ \E w \in WeightInputs : Len(updateLog) < MaxUpdates /\ UpdateWeights(w)
    \/ AggGet
    \/ AggProcess

SpecWeights == Init /\ [][NextWeights]_vars

\* ---- the confirmation-window specification: long runs of signals of one
\* asset in two directions, a signal of a second asset among the first ones,
\* the consumer keeping up with the producer
ConfirmInputs ==
    {[type |-> "LIQUIDITY_FLOW", asset |-> "ETH", strength |-> Strength08, direction |-> d] :
        d \in {"bullish", "bearish"}}
OtherAssetInputs ==
    {[type |-> "DERIVATIVES_GREED", asset |-> "BTC", strength |-> Strength08, direction |-> "bullish"]}

NextConfirm ==
    \/ \E s \in ConfirmInputs :
        nextId <= MaxConfirmSignals /\ signal_queue = <<>> /\ aggPc = "get" /\ SubmitSignal(s)
    \/ \E s \in OtherAssetInputs :
        nextId <= MaxOtherAssetSignals /\ signal_queue = <<>> /\ aggPc = "get" /\ SubmitSignal(s)
    \/ AggGet
    \/ AggProcess

SpecConfirm == Init /\ [][NextConfirm]_vars

\* ---- the high-priority specification: the aggregator constructed with or
\* without a pub/sub client, the listing scanner calling
\* submit_high_priority_signal, another producer calling submit_signal
RedisClients == {"None", "client"}
PublishOutcomes == {"ok", "raises"}
ListingSignal(symbol) ==
    [type |-> "CEX_LISTING_ARBITRAGE", asset |-> symbol, strength |-> RInt(1),
     direction |-> "bullish"]
HighPriorityInputs ==
    {ListingSignal("ETH"), ListingSignal("PEPE"),
     \* a dict that lacks `asset`
     [type |-> "CEX_LISTING_ARBITRAGE", strength |-> RInt(1), direction |-> "bullish"]}

InitHighPriority == \E redis_client \in RedisClients : InitWith(redis_client)

NextHighPriority ==
    \/ \E s \in HighPriorityInputs : \E publish \in PublishOutcomes :
        nextId <= MaxHighPrioritySignals /\ SubmitHighPriority(s, publish)
    \/ \E s \in ConfirmInputs : nextId <= MaxHighPrioritySignals /\ SubmitSignal(s)
    \/ AggGet
    \/ AggProcess

SpecHighPriority == InitHighPriority /\ [][NextHighPriority]_vars

\* ---- the run_loop specification: what discovery finds is an input, as the
\* prices are.  _find_cointegrated_groups assigns one group written in place of
\* the Johansen test over db.fetch_price_history; the model lets discovery find
\* that list or a list with a zero-variance group, a 4-asset group and a pair,
\* or raise (the database read).  run_loop is observed from its first
\* iteration, or from two iterations before the second discovery is due.
DemoTriple == NewlyFoundGroups[1]
ZeroStdGroup ==
    [name |-> "Flat_Spread",
     assets |-> <<"BTC", "MSTR", "COIN">>,
     hedge_ratios |-> [MSTR |-> Rat(1, 10), COIN |-> Rat(5, 1)],
     spread_mean |-> Rat(150, 1),
     spread_std |-> Rat(0, 1)]
FourAssetGroup ==
    [name |-> "BTC_vs_Four",
     assets |-> <<"BTC", "MSTR", "COIN", "HOOD">>,
     hedge_ratios |-> [MSTR |-> Rat(1, 10), COIN |-> Rat(5, 1), HOOD |-> Rat(2, 1)],
     spread_mean |-> Rat(150, 1),
     spread_std |-> Rat(75, 1)]
PairGroup ==
    [name |-> "BTC_vs_MSTR",
     assets |-> <<"BTC", "MSTR">>,
     hedge_ratios |-> [MSTR |-> Rat(1, 10)],
     spread_mean |-> Rat(150, 1),
     spread_std |-> Rat(75, 1)]
DiscoveryOutcomes ==
    {[raised |-> FALSE, groups |-> NewlyFoundGroups],
     [raised |-> FALSE, groups |-> <<ZeroStdGroup, DemoTriple>>],
     [raised |-> FALSE, groups |-> <<DemoTriple, FourAssetGroup, PairGroup>>],
     [raised |-> TRUE, groups |-> <<>>]}
\* BTC at 71000 (the source's dict, z = 925.87), at 1560 (z = 0) and at 1335 (z = -3)
LoopPriceInputs ==
    {[BTC |-> b, MSTR |-> RInt(1600), COIN |-> RInt(250), HOOD |-> RInt(10)] :
        b \in {RInt(71000), RInt(1560), RInt(1335)}}
LoopStarts == {0, DiscoveryPeriod - 2}

InitLoop ==
    \E count \in LoopStarts :
        InitState("None", count, IF count = 0 THEN <<>> ELSE NewlyFoundGroups)

NextLoop ==
    \/ \E found \in DiscoveryOutcomes : \E live_prices \in LoopPriceInputs :
        Len(scanLog) < MaxIterations /\ RunLoopIteration(found, live_prices)
    \/ RunLoopWake
    \/ RunLoopCancel

SpecLoop == InitLoop /\ [][NextLoop]_vars

\* the sleep timer fires
SpecLoopFair == SpecLoop /\ WF_vars(RunLoopWake)

----------------------------------------------------------------------------
(* Properties of the aggregator's queue and consumer loop. *)

Range(seq) == {seq[i] : i \in 1..Len(seq)}
Ids(seq) == {seq[i].id : i \in 1..Len(seq)}
\* the numbers signal objects can get in the aggregator specification
SignalIds == 1..MaxSignals
\* the consumer task was cancelled
Cancelled == aggExit # ""
\* submit_signal has run for the signal numbered id
Submitted(id) == id \in Ids(submitLog)
\* how often the signal numbered id was handed to _process_signal
TimesHanded(id) == Cardinality({i \in 1..Len(handedLog) : handedLog[i] = id})
\* the position of the signal numbered id in the order of submission
SubmitPos(id) == CHOOSE k \in 1..Len(submitLog) : submitLog[k].id = id
SubmittedSignal(id) == submitLog[SubmitPos(id)]
WellFormed(signal) == RequiredFields \subseteq DOMAIN signal
\* the signal numbered id reached _update_composite_signal
Composited(id) == id \in Ids(compositeLog)

\* C1: while the consumer loop is not cancelled, every signal passed to
\* submit_signal is eventually handed to _process_signal; no signal is handed to
\* it twice, and a signal that was handed over (failed or not) is neither pending
\* nor in flight again.
C1_ProcessedExactlyOnce ==
    /\ [](\A id \in SignalIds :
            /\ TimesHanded(id) <= 1
            /\ TimesHanded(id) = 1 => id \notin Ids(signal_queue) /\ id \notin {s.id : s \in inflight})
    /\ \A id \in SignalIds : Submitted(id) ~> (TimesHanded(id) = 1 \/ Cancelled)

\* C1 witness: every signal the bound allows was submitted and handed over, one
\* of them having failed, and the loop was never cancelled.
C1_Witness ==
    /\ Len(submitLog) = MaxSignals
    /\ \A id \in SignalIds : TimesHanded(id) = 1
    /\ \E id \in SignalIds : ~WellFormed(SubmittedSignal(id))
    /\ ~Cancelled

\* C2: signals of one asset are handed to _process_signal, and reach the
\* composite update, in the order submit_signal ran for them; the signals of one
\* gather are submitted in the order gather was given them; at most one signal
\* is in flight.
C2_SubmissionOrder ==
    /\ Cardinality(inflight) <= 1
    /\ (inflight # {}) <=> (aggPc = "process")
    /\ \A i, j \in 1..Len(handedLog) :
        (i < j /\ SubmittedSignal(handedLog[i]).asset = SubmittedSignal(handedLog[j]).asset)
            => SubmitPos(handedLog[i]) < SubmitPos(handedLog[j])
    /\ \A s \in inflight : \A i \in 1..Len(handedLog) :
        SubmittedSignal(handedLog[i]).asset = s.asset => SubmitPos(handedLog[i]) < SubmitPos(s.id)
    /\ \A i, j \in 1..Len(compositeLog) :
        (i < j /\ compositeLog[i].asset = compositeLog[j].asset)
            => SubmitPos(compositeLog[i].id) < SubmitPos(compositeLog[j].id)
    /\ \A i, j \in 1..Len(gatherLog) :
        (i < j /\ Submitted(gatherLog[j]))
            => Submitted(gatherLog[i]) /\ SubmitPos(gatherLog[i]) < SubmitPos(gatherLog[j])

\* C2 witness: two producers interleaved (a signal created later was submitted
\* first), and two signals of one asset, from different producers, were both
\* processed.
C2_Witness ==
    \E i, j \in 1..Len(handedLog) :
        /\ i < j
        /\ SubmittedSignal(handedLog[i]).asset = SubmittedSignal(handedLog[j]).asset
        /\ handedLog[i] > handedLog[j]
        /\ handedLog[j] \in Range(gatherLog)
        /\ handedLog[i] \notin Range(gatherLog)
        /\ Composited(handedLog[i]) /\ Composited(handedLog[j])

\* a signal that raised in _process_signal: handed over, no composite update
Failed(id) == TimesHanded(id) >= 1 /\ ~Composited(id) /\ id \notin {s.id : s \in inflight}

\* C3: the loop stops only by cancellation, a failure leaves it sleeping or
\* running, and a well-formed signal submitted after a malformed one is
\* processed up to the composite update unless the loop is cancelled.
C3_FailureIsolated ==
    /\ [](aggPc = "stopped" => Cancelled)
    /\ [](\A id \in SignalIds : (Failed(id) /\ ~Cancelled) => aggPc \in {"sleep", "get", "process"})
    /\ \A id \in SignalIds :
        (/\ Submitted(id)
         /\ WellFormed(SubmittedSignal(id))
         /\ \E m \in SignalIds :
              /\ Submitted(m)
              /\ SubmitPos(m) < SubmitPos(id)
              /\ ~WellFormed(SubmittedSignal(m)))
            ~> (Composited(id) \/ Cancelled)

\* C3 witness: a malformed signal failed, and a well-formed one queued behind it
\* before the failure was processed afterwards, the loop not being cancelled.
C3_Witness ==
    \E m, id \in SignalIds :
        /\ Submitted(m) /\ Submitted(id)
        /\ SubmitPos(m) < SubmitPos(id)
        /\ Failed(m)
        /\ Composited(id)
        /\ ~Cancelled
        /\ aggPc = "get"

----------------------------------------------------------------------------
(* Properties of the position state machine of _monitor_spreads. *)

\* FLAT is the absence of the group from active_positions
PositionOf(positions, g) == DictGet(positions, g, "FLAT")
Directions(signals) == [i \in 1..Len(signals) |-> signals[i].direction]
\* a step that is one scan of _monitor_spreads
ScanStep == Len(scanLog') = Len(scanLog) + 1
\* the z-scores the scan of this step computed, one entry per group
ScanZs == scanLog'[Len(scanLog')].zs
\* the signals submitted during this step for group g
NewSignals(g) ==
    SelectSeq(SubSeq(submitLog', Len(submitLog) + 1, Len(submitLog')), LAMBDA s : s.asset = g)

\* C4: every group starts FLAT; in a scan a FLAT group becomes SHORT with
\* exactly one ENTER_SHORT submitted iff z > 2.5, and LONG with exactly one
\* ENTER_LONG submitted iff z < -2.5.
C4_EntryTransitions ==
    [][/\ (scanLog = <<>>) => (active_positions = EmptyDict)
       /\ ScanStep => \A k \in 1..Len(ScanZs) :
            LET g == ScanZs[k].group
                z == ScanZs[k].z
            IN  PositionOf(active_positions, g) = "FLAT" =>
                  /\ (/\ PositionOf(active_positions', g) = "SHORT"
                      /\ Directions(NewSignals(g)) = <<"ENTER_SHORT">>) <=> RGt(z, Rat(25, 10))
                  /\ (/\ PositionOf(active_positions', g) = "LONG"
                      /\ Directions(NewSignals(g)) = <<"ENTER_LONG">>) <=> RLt(z, Rat(-25, 10))
      ]_vars

DemoGroup == "BTC_vs_Stock_Proxies"
\* the position of the tracked group after scan i (before the first scan: FLAT)
PosAfter(i) == IF i = 0 THEN "FLAT" ELSE PositionOf(scanLog[i].positions, DemoGroup)
\* the z-score scan i computed for the tracked group
ZAt(i) == scanLog[i].zs[1].z
Scans == 1..Len(scanLog)

\* C4 witness: from FLAT one scan entered SHORT with a single ENTER_SHORT and
\* another scan entered LONG with a single ENTER_LONG.
C4_Witness ==
    /\ \E i \in Scans :
        /\ PosAfter(i - 1) = "FLAT" /\ PosAfter(i) = "SHORT"
        /\ Directions(scanLog[i].submitted) = <<"ENTER_SHORT">>
    /\ \E j \in Scans :
        /\ PosAfter(j - 1) = "FLAT" /\ PosAfter(j) = "LONG"
        /\ Directions(scanLog[j].submitted) = <<"ENTER_LONG">>
    /\ active_positions = scanLog[Len(scanLog)].positions

\* C5: in a scan a SHORT group becomes FLAT with exactly one EXIT_SHORT
\* submitted iff z < 0.5, and a LONG group becomes FLAT with exactly one
\* EXIT_LONG submitted iff z > -0.5.
C5_ExitTransitions ==
    [][ScanStep => \A k \in 1..Len(ScanZs) :
            LET g == ScanZs[k].group
                z == ScanZs[k].z
            IN  /\ PositionOf(active_positions, g) = "SHORT" =>
                    ((/\ PositionOf(active_positions', g) = "FLAT"
                      /\ Directions(NewSignals(g)) = <<"EXIT_SHORT">>) <=> RLt(z, Rat(5, 10)))
                /\ PositionOf(active_positions, g) = "LONG" =>
                    ((/\ PositionOf(active_positions', g) = "FLAT"
                      /\ Directions(NewSignals(g)) = <<"EXIT_LONG">>) <=> RGt(z, Rat(-5, 10)))
      ]_vars

\* C5 witness: a SHORT position was closed with EXIT_SHORT and a LONG position
\* with EXIT_LONG.
C5_Witness ==
    /\ \E i \in Scans :
        /\ PosAfter(i - 1) = "SHORT" /\ PosAfter(i) = "FLAT"
        /\ Directions(scanLog[i].submitted) = <<"EXIT_SHORT">>
    /\ \E j \in Scans :
        /\ PosAfter(j - 1) = "LONG" /\ PosAfter(j) = "FLAT"
        /\ Directions(scanLog[j].submitted) = <<"EXIT_LONG">>
    /\ Directions(submitLog) = <<"ENTER_SHORT", "EXIT_SHORT", "ENTER_LONG", "EXIT_LONG">>
        \/ Directions(submitLog) = <<"ENTER_LONG", "EXIT_LONG", "ENTER_SHORT", "EXIT_SHORT">>

\* a scan that matches no entry and no exit condition for a group in `position`
HoldCase(position, z) ==
    \/ position = "FLAT" /\ ~RGt(z, Rat(25, 10)) /\ ~RLt(z, Rat(-25, 10))
    \/ position = "SHORT" /\ ~RLt(z, Rat(5, 10))
    \/ position = "LONG" /\ ~RGt(z, Rat(-5, 10))

\* C6: in a hold case the position is unchanged and nothing is submitted; a
\* scan submits at most one signal per group; no scan turns SHORT into LONG or
\* LONG into SHORT.
C6_HoldAndSingleStep ==
    [][ScanStep => \A k \in 1..Len(ScanZs) :
            LET g == ScanZs[k].group
                z == ScanZs[k].z
                old == PositionOf(active_positions, g)
                new == PositionOf(active_positions', g)
            IN  /\ HoldCase(old, z) => (new = old /\ NewSignals(g) = <<>>)
                /\ Len(NewSignals(g)) <= 1
                /\ ~(old = "SHORT" /\ new = "LONG")
                /\ ~(old = "LONG" /\ new = "SHORT")
      ]_vars

\* C6 witness: a FLAT group held at z = 2.5 and a SHORT group held at z = 0.5,
\* nothing being submitted in either scan.
C6_Witness ==
    /\ \E i \in Scans :
        /\ PosAfter(i - 1) = "FLAT" /\ PosAfter(i) = "FLAT"
        /\ REq(ZAt(i), Rat(25, 10)) /\ scanLog[i].submitted = <<>>
    /\ \E j \in Scans :
        /\ PosAfter(j - 1) = "SHORT" /\ PosAfter(j) = "SHORT"
        /\ REq(ZAt(j), Rat(5, 10)) /\ scanLog[j].submitted = <<>>

\* the scans so far computed exactly the z-scores zseq, in this order
ZSeqIs(zseq) == Len(scanLog) = Len(zseq) /\ \A i \in 1..Len(zseq) : REq(ZAt(i), zseq[i])
TestSequence == <<RInt(3), RInt(1), RInt(-3), RInt(0)>>

\* C7: after the z-scores 3.0, 1.0, -3.0, 0.0 from FLAT exactly two signals were
\* submitted, ENTER_SHORT then EXIT_SHORT, and the group is FLAT; every run of
\* this sequence goes through the same positions and submits the same signals.
C7_TestSequence ==
    ZSeqIs(TestSequence) =>
        /\ Directions(submitLog) = <<"ENTER_SHORT", "EXIT_SHORT">>
        /\ Directions(signal_queue) = <<"ENTER_SHORT", "EXIT_SHORT">>
        /\ PositionOf(active_positions, DemoGroup) = "FLAT"
        /\ \A r \in Scans : PosAfter(r) = <<"SHORT", "SHORT", "FLAT", "FLAT">>[r]
        /\ \A r \in Scans : Len(scanLog[r].submitted) = <<1, 0, 1, 0>>[r]

\* C7 witness: the four scans of the test sequence were run.
C7_Witness == ZSeqIs(TestSequence) /\ Len(submitLog) = 2

\* C8 as claimed: the group is still SHORT after the third scan (z = -3.0), which
\* submits nothing, and EXIT_SHORT and SHORT -> FLAT happen in the fourth scan.
C8_AsClaimed ==
    /\ ZSeqIs(SubSeq(TestSequence, 1, 3)) =>
        /\ PositionOf(active_positions, DemoGroup) = "SHORT"
        /\ scanLog[3].submitted = <<>>
    /\ ZSeqIs(TestSequence) =>
        /\ PosAfter(3) = "SHORT" /\ PosAfter(4) = "FLAT"
        /\ Directions(scanLog[4].submitted) = <<"EXIT_SHORT">>

\* C8 amended: the group is SHORT after the second scan and FLAT after the
\* third (z = -3.0 < 0.5), which submits EXIT_SHORT; the fourth scan (z = 0.0)
\* submits nothing and leaves the group FLAT.
C8_ExitOnThirdScan ==
    /\ ZSeqIs(SubSeq(TestSequence, 1, 3)) =>
        /\ PosAfter(2) = "SHORT"
        /\ PositionOf(active_positions, DemoGroup) = "FLAT"
        /\ Directions(scanLog[3].submitted) = <<"EXIT_SHORT">>
        /\ Directions(submitLog) = <<"ENTER_SHORT", "EXIT_SHORT">>
    /\ ZSeqIs(TestSequence) =>
        /\ PosAfter(3) = "FLAT" /\ PosAfter(4) = "FLAT"
        /\ scanLog[4].submitted = <<>>

\* C8 witness: the third scan of the test sequence (z = -3.0) has just run.
C8_Witness == ZSeqIs(SubSeq(TestSequence, 1, 3)) /\ Len(submitLog) = 2

----------------------------------------------------------------------------
(* Properties of the confirmation check. *)

\* a step in which _process_signal reached _update_composite_signal
CompositeStep == Len(compositeLog') = Len(compositeLog) + 1
\* the signal that step processed
StepSignal == CHOOSE s \in inflight : s \notin inflight'
\* strength x weight of a signal under the weight table of the current state
Unboosted(signal) == RMul(signal.strength, DictGet(signal_weights, signal.type, Rat(1, 10)))

EarlierSameAsset(k) ==
    SelectSeq(SubSeq(compositeLog, 1, k - 1), LAMBDA e : e.asset = compositeLog[k].asset)

\* C10: a signal is boosted iff one of the 10 most recently processed earlier
\* signals of its asset has its direction (the 10th most recent included).
C10_TenSignalWindow ==
    \A k \in 1..Len(compositeLog) :
        LET e == compositeLog[k]
            s == SubmittedSignal(e.id)
            window == LastN(EarlierSameAsset(k), 10)
        IN  IF \E i \in 1..Len(window) : window[i].direction = e.direction
            THEN REq(e.weighted_strength, RMul(Rat(5, 4), Unboosted(s)))
            ELSE REq(e.weighted_strength, Unboosted(s))

----------------------------------------------------------------------------
(* Properties of the weight table. *)

\* the position at which the signal numbered id was handed to _process_signal
HandedPos(id) == CHOOSE k \in 1..Len(handedLog) : handedLog[k] = id
\* the calls of update_weights that had returned when the k-th signal was handed over
UpdatesBefore(k) == {u \in 1..Len(updateLog) : updateLog[u].handed < k}
\* the weight of type t after the first n calls of update_weights, read from
\* the calls themselves: the value of the last call that names t, else the
\* entry of the table of __init__, else the fallback 0.1
RECURSIVE WeightAfter(_, _)
WeightAfter(t, n) ==
    IF n = 0
    THEN IF t \in DOMAIN DefaultWeights THEN DefaultWeights[t] ELSE FallbackWeight
    ELSE IF t \in DOMAIN updateLog[n].new_weights
    THEN updateLog[n].new_weights[t]
    ELSE WeightAfter(t, n - 1)
\* the composite entry k is of a signal no earlier signal of its asset confirms
Unconfirmed(k) ==
    \A j \in 1..(k - 1) :
        ~(compositeLog[j].asset = compositeLog[k].asset
            /\ compositeLog[j].direction = compositeLog[k].direction)
\* a type that is in the table neither at construction nor after any update
NeverWeighted(t) ==
    t \notin DOMAIN DefaultWeights /\ \A u \in 1..Len(updateLog) : t \notin DOMAIN updateLog[u].new_weights

\* C11: an unconfirmed signal of type T and strength s processed after
\* update_weights({T: w}), no later call naming T having returned, gets the
\* weighted strength s x w; a signal whose type is not in the table gets s x 0.1.
C11_UpdatedWeightApplied ==
    \A k \in 1..Len(compositeLog) :
        LET signal == SubmittedSignal(compositeLog[k].id)
            n == Cardinality(UpdatesBefore(HandedPos(signal.id)))
        IN  Unconfirmed(k) =>
                /\ REq(compositeLog[k].weighted_strength,
                       RMul(signal.strength, WeightAfter(signal.type, n)))
                /\ NeverWeighted(signal.type) =>
                       REq(compositeLog[k].weighted_strength, RMul(signal.strength, Rat(1, 10)))

\* C11 witness: update_weights({"X": 0.42}) was the last call before a signal of
\* type X and strength 1.0 was processed to 0.42, and a signal of a type no
\* table ever held was processed to 0.1 x its strength.
C11_Witness ==
    /\ \E k \in 1..Len(compositeLog) :
        LET signal == SubmittedSignal(compositeLog[k].id)
            n == Cardinality(UpdatesBefore(HandedPos(signal.id)))
        IN  /\ signal.type = "X" /\ REq(signal.strength, RInt(1))
            /\ n >= 1 /\ updateLog[n].new_weights = [X |-> Rat(42, 100)]
            /\ REq(compositeLog[k].weighted_strength, Rat(42, 100))
    /\ \E k \in 1..Len(compositeLog) :
        LET signal == SubmittedSignal(compositeLog[k].id)
        IN  /\ signal.type = "DERIVATIVES_GREED"
            /\ REq(compositeLog[k].weighted_strength, Rat(8, 100))

\* a step that is one call of update_weights
UpdateStep == Len(updateLog') = Len(updateLog) + 1
\* a step that hands one signal to _process_signal
HandStep == Len(handedLog') = Len(handedLog) + 1
\* an earlier composite entry has the asset and direction of the signal
ConfirmedByEarlier(signal) ==
    \E j \in 1..Len(compositeLog) :
        compositeLog[j].asset = signal.asset /\ compositeLog[j].direction = signal.direction

\* C12: a call of update_weights changes neither the queue, the signal in
\* flight, the consumer's position nor any composite entry computed before;
\* every signal handed to _process_signal after the call, queued before it or
\* not, is weighted with the table all returned calls leave; and processing a
\* well-formed signal never fails, however the calls interleave.
C12_UpdateBetweenSteps ==
    [][/\ UpdateStep =>
            /\ compositeLog' = compositeLog
            /\ signal_queue' = signal_queue
            /\ inflight' = inflight
            /\ aggPc' = aggPc
            /\ recent_signals_buffer' = recent_signals_buffer
       /\ Len(compositeLog') >= Len(compositeLog)
       /\ \A k \in 1..Len(compositeLog) : compositeLog'[k] = compositeLog[k]
       /\ HandStep =>
            /\ CompositeStep
            /\ aggPc' = "get"
            /\ LET signal == StepSignal
                   base == RMul(signal.strength, WeightAfter(signal.type, Len(updateLog)))
                   entry == compositeLog'[Len(compositeLog')]
               IN  /\ entry.id = signal.id
                   /\ REq(entry.weighted_strength,
                          IF ConfirmedByEarlier(signal) THEN RMul(base, BoostFactor) ELSE base)
      ]_vars

\* C12 witness: two signals of one type were queued, the first was processed
\* with the old weight, update_weights then changed the weight of their type
\* while the second was still waiting, and the second was processed with the new
\* weight, the entry of the first being what it was.
C12_Witness ==
    \E u \in 1..Len(updateLog) : \E j, k \in 1..Len(compositeLog) :
        LET first == SubmittedSignal(compositeLog[j].id)
            second == SubmittedSignal(compositeLog[k].id)
            new_weights == updateLog[u].new_weights
        IN  /\ j < k /\ first.type = second.type /\ first.asset # second.asset
            /\ second.type \in DOMAIN new_weights
            /\ ~REq(new_weights[second.type], WeightAfter(second.type, u - 1))
            /\ SubmitPos(second.id) <= updateLog[u].submitted
            /\ HandedPos(first.id) <= updateLog[u].handed
            /\ HandedPos(second.id) > updateLog[u].handed
            /\ REq(compositeLog[j].weighted_strength,
                   RMul(first.strength, WeightAfter(first.type, u - 1)))
            /\ REq(compositeLog[k].weighted_strength,
                   RMul(second.strength, new_weights[second.type]))

----------------------------------------------------------------------------
(* Properties of the high-priority path. *)

\* a step that is one call of submit_high_priority_signal
HighPriorityStep == Len(hpLog') = Len(hpLog) + 1
\* the numbers of the signals passed to submit_high_priority_signal
HighPriorityIds == {hpLog[i].id : i \in 1..Len(hpLog)}

\* C13: a call of submit_high_priority_signal leaves the signal queue, the
\* signal in flight, the confirmation buffer, the weight table and the composite
\* entries as they were, and its signal is never submitted to the queue, handed
\* to _process_signal, buffered or given a composite entry.
C13_HighPriorityBypass ==
    /\ [][HighPriorityStep =>
            /\ signal_queue' = signal_queue
            /\ unfinished_tasks' = unfinished_tasks
            /\ inflight' = inflight
            /\ aggPc' = aggPc
            /\ recent_signals_buffer' = recent_signals_buffer
            /\ signal_weights' = signal_weights
            /\ compositeLog' = compositeLog
            /\ handedLog' = handedLog
         ]_vars
    /\ [](\A id \in HighPriorityIds :
            /\ id \notin Ids(signal_queue)
            /\ id \notin Ids(submitLog)
            /\ id \notin {s.id : s \in inflight}
            /\ id \notin Range(handedLog)
            /\ id \notin Ids(compositeLog)
            /\ \A a \in DOMAIN recent_signals_buffer : id \notin Ids(recent_signals_buffer[a]))

\* C13 witness: a bullish listing signal for ETH was published on the channel,
\* and a bullish ETH signal submitted to the queue after it was processed
\* unboosted, the only entry of the ETH buffer.
C13_Witness ==
    \E h \in 1..Len(hpLog) : \E k \in 1..Len(compositeLog) :
        /\ hpLog[h].log = "critical"
        /\ \E i \in 1..Len(published) :
            /\ published[i].id = hpLog[h].id
            /\ published[i].asset = "ETH" /\ published[i].direction = "bullish"
        /\ compositeLog[k].id > hpLog[h].id
        /\ compositeLog[k].asset = "ETH" /\ compositeLog[k].direction = "bullish"
        /\ REq(compositeLog[k].weighted_strength, Rat(16, 100))
        /\ Len(recent_signals_buffer["ETH"]) = 1

\* how often the signal numbered id was passed to publish or published
TimesPublished(id) == Cardinality({i \in 1..Len(published) : published[i].id = id})

\* C14: every call of submit_high_priority_signal returns normally; when no
\* client is configured publish is not called, when publish raises it is called
\* once, and in both cases the signal is published nowhere, the call logs a
\* warning or an error, and the signal is not put on the normal queue.
C14_HighPriorityReturnsNormally ==
    \A h \in 1..Len(hpLog) :
        /\ ~hpLog[h].raised
        /\ hpLog[h].attempts <= 1
        /\ TimesPublished(hpLog[h].id) <= 1
        /\ hpLog[h].publish = "none" =>
            /\ redis = "None"
            /\ hpLog[h].attempts = 0
            /\ hpLog[h].log = "warning"
            /\ TimesPublished(hpLog[h].id) = 0
            /\ hpLog[h].id \notin Ids(submitLog)
        /\ hpLog[h].publish = "raises" =>
            /\ hpLog[h].attempts = 1
            /\ hpLog[h].log = "error"
            /\ TimesPublished(hpLog[h].id) = 0
            /\ hpLog[h].id \notin Ids(submitLog)

\* C14 witness: with a client configured a publish raised, the call returned
\* with an error logged and nothing published, and the producer's next call,
\* whose publish succeeded, got its signal published.
C14_Witness ==
    /\ redis = "client"
    /\ \E h \in 1..Len(hpLog) :
        /\ hpLog[h].publish = "raises" /\ hpLog[h].log = "error" /\ ~hpLog[h].raised
        /\ TimesPublished(hpLog[h].id) = 0
        /\ h < Len(hpLog)
        /\ hpLog[h + 1].publish = "ok" /\ TimesPublished(hpLog[h + 1].id) = 1

----------------------------------------------------------------------------
(* Properties of run_loop: discovery, the scan over several groups, failures. *)

\* the record of the iteration this step makes
ThisScan == scanLog'[Len(scanLog')]
Names(groups) == [i \in 1..Len(groups) |-> groups[i].name]
EvaluatedNames(entry) == [i \in 1..Len(entry.zs) |-> entry.zs[i].group]
IsPrefix(a, b) == Len(a) <= Len(b) /\ \A i \in 1..Len(a) : a[i] = b[i]

\* C15: the group list changes only in an iteration whose discovery ran, and
\* then it is exactly the list discovery found, nothing of the old list left in
\* it; the groups a scan evaluates are, in order, groups of the one list that
\* is in place when the scan starts and when it ends (all of them unless the scan
\* was ended by an exception); a list found later is evaluated only by scans
\* that start after it was assigned.
C15_GroupSetReplacedWhole ==
    [][/\ ~ScanStep => cointegrated_groups' = cointegrated_groups
       /\ ScanStep =>
            /\ ThisScan.discovery = "ran" => cointegrated_groups' = ThisScan.found
            /\ ThisScan.discovery # "ran" => cointegrated_groups' = cointegrated_groups
            /\ ThisScan.groups = cointegrated_groups'
            /\ IsPrefix(EvaluatedNames(ThisScan), Names(cointegrated_groups'))
            /\ (ThisScan.scanned /\ ThisScan.raised = "") =>
                  EvaluatedNames(ThisScan) = Names(cointegrated_groups')
      ]_vars

\* C15 witness: a scan evaluated the whole list then in place, and a later
\* iteration's discovery replaced that list by a different one, of which its
\* scan evaluated the first two groups.
C15_Witness ==
    \E i, j \in Scans :
        /\ i < j
        /\ scanLog[i].groups # <<>>
        /\ EvaluatedNames(scanLog[i]) = Names(scanLog[i].groups)
        /\ scanLog[j].discovery = "ran"
        /\ scanLog[j].groups # scanLog[i].groups
        /\ cointegrated_groups = scanLog[j].found
        /\ Len(scanLog[j].zs) = 2
        /\ IsPrefix(EvaluatedNames(scanLog[j]), Names(scanLog[j].found))

\* the names of the groups discovery can find
GroupNames ==
    UNION {{found.groups[i].name : i \in 1..Len(found.groups)} : found \in DiscoveryOutcomes}
\* a position change of one group and the signals submitted for it in one scan
TransitionOK(before, after, signals) ==
    \/ before = after /\ signals = <<>>
    \/ before = "FLAT" /\ after = "SHORT" /\ Directions(signals) = <<"ENTER_SHORT">>
    \/ before = "FLAT" /\ after = "LONG" /\ Directions(signals) = <<"ENTER_LONG">>
    \/ before = "SHORT" /\ after = "FLAT" /\ Directions(signals) = <<"EXIT_SHORT">>
    \/ before = "LONG" /\ after = "FLAT" /\ Directions(signals) = <<"EXIT_LONG">>

\* C16: active_positions changes only in a scan, and there only for a group the
\* scan evaluated, by one entry or exit transition from the position the group
\* had before the iteration, with the matching signal; discovery, run in the
\* same iteration or failing, changes no position.
C16_PositionsOnlyByScan ==
    [][/\ ~ScanStep => active_positions' = active_positions
       /\ ScanStep =>
            /\ ~ThisScan.scanned => active_positions' = active_positions
            /\ \A g \in GroupNames :
                /\ TransitionOK(PositionOf(active_positions, g),
                                PositionOf(active_positions', g), NewSignals(g))
                /\ g \notin Range(EvaluatedNames(ThisScan)) =>
                      PositionOf(active_positions', g) = PositionOf(active_positions, g)
      ]_vars

\* C16 witness: a position was opened, discovery then ran again and found a
\* different list, and the position was still SHORT after that iteration.
C16_Witness ==
    \E i, j \in Scans :
        /\ i < j
        /\ PositionOf(scanLog[i].before, DemoGroup) = "FLAT"
        /\ PositionOf(scanLog[i].positions, DemoGroup) = "SHORT"
        /\ scanLog[j].discovery = "ran"
        /\ scanLog[j].found # scanLog[i].groups
        /\ PositionOf(scanLog[j].before, DemoGroup) = "SHORT"
        /\ PositionOf(scanLog[j].positions, DemoGroup) = "SHORT"
        /\ active_positions = scanLog[j].positions

\* the sum of hedge_ratio x price over the assets of the list from index k on
RECURSIVE HedgedSum(_, _, _)
HedgedSum(group, live_prices, k) ==
    IF k > Len(group.assets)
    THEN RInt(0)
    ELSE RAdd(RMul(group.hedge_ratios[group.assets[k]], live_prices[group.assets[k]]),
              HedgedSum(group, live_prices, k + 1))
\* the anchor's price minus the hedged prices of all other assets, and its z-score
SpreadOverAllAssets(group, live_prices) ==
    RSub(live_prices[group.assets[1]], HedgedSum(group, live_prices, 2))
ZOverAllAssets(group, live_prices) ==
    RDiv(RSub(SpreadOverAllAssets(group, live_prices), group.spread_mean), group.spread_std)

AllTriples(groups) == \A k \in 1..Len(groups) : Len(groups[k].assets) = 3

DiscoveryRuns == {j \in Scans : scanLog[j].discovery # "none"}
\* the scans started in the iterations a..b
ScansStartedIn(a, b) == Cardinality({k \in a..b : scanLog[k].scanned})
\* the scans started since the last discovery run before iteration j, that run's
\* own iteration included; before the first recorded iteration run_loop made
\* loop_count scans without a failure
ScansSinceDiscovery(j) ==
    IF \E i \in DiscoveryRuns : i < j
    THEN LET last == CHOOSE i \in DiscoveryRuns : i < j /\ \A m \in DiscoveryRuns : m < j => m <= i
         IN  ScansStartedIn(last, j - 1)
    ELSE scanLog[1].loop_count + ScansStartedIn(1, j - 1)

IterationFailed(n) == scanLog[n].discovery = "raised" \/ scanLog[n].raised # ""
\* the task of run_loop was cancelled
LoopCancelled == loopPc = "cancelled"

\* C20: no exception of discovery or of a scan leaves run_loop: an iteration
\* that fails ends at the sleep like any other, the loop ends only by
\* cancellation, which comes while it sleeps, and after a failed iteration the
\* loop is back at the top of its body for the next one unless it is cancelled.
C20_LoopSurvivesFailures ==
    /\ [](loopPc \in {"try", "sleep", "cancelled"})
    /\ [][ScanStep => loopPc' = "sleep"]_vars
    /\ [][loopPc' = "cancelled" => (loopPc = "sleep" /\ ~ScanStep)]_vars
    /\ \A n \in 1..MaxIterations :
        (Len(scanLog) = n /\ IterationFailed(n)) ~> (loopPc = "try" \/ LoopCancelled)

\* C20 witness: an iteration whose discovery raised, then one whose scan raised,
\* then one that ran its scan to the end, the loop not cancelled.
C20_Witness ==
    \E n \in Scans :
        /\ n + 2 \in Scans
        /\ scanLog[n].discovery = "raised"
        /\ scanLog[n + 1].raised # ""
        /\ scanLog[n + 2].scanned /\ ~IterationFailed(n + 2)
        /\ ~LoopCancelled

----------------------------------------------------------------------------
(* The producers that hold a network session: CEXListingScanner,            *)
(* StablecoinMonitor and NarrativeTracker.  Their run_loop has one shape:    *)
(*     while True:                                                           *)
(*         try: await asyncio.gather(<scans>) ... (submit a signal)          *)
(*         except asyncio.CancelledError: close the session; break           *)
(*         except Exception: log                                             *)
(*         await asyncio.sleep(...)                                          *)
(* The scans open the session through _get_session before their first       *)
(* request.  The narrative tracker also sleeps inside the try block when no  *)
(* momentum data came back ("idle").                                         *)

\* _get_session: a session is created when there is none or it is closed
GetSession(s) == IF s \in {"None", "closed"} THEN "open" ELSE s

\* the handler of CancelledError: if self.session: await self.session.close()
CloseIfSet(s) == IF s = "None" THEN s ELSE "closed"

\* what a finished scan can have found
ScanOutcomes(p) ==
    IF p = "narrative_tracker" THEN {"nothing", "signal", "idle"} ELSE {"nothing", "signal"}

\* the signal a producer submits when its scan found something
ProducerSignal(p) ==
    CASE p = "cex_scanner" ->
            [type |-> "CEX_LISTING_ARBITRAGE", asset |-> "XYZ", strength |-> RInt(1),
             direction |-> "bullish"]
      [] p = "stablecoin_monitor" ->
            [type |-> "STABLECOIN_DEPEG_RISK", asset |-> "MARKET_WIDE",
             strength |-> Rat(9, 10), direction |-> "risk-off"]
      [] OTHER ->
            [type |-> "NARRATIVE_ROTATION", asset |-> "MARKET_WIDE",
             strength |-> Rat(75, 100), direction |-> "bullish_for_narrative"]

\* the loop enters its try block: the gather starts the scans, which open the
\* session and wait for their responses
ProducerEnterScan(p) ==
    /\ producerPc[p] \in {"start", "sleep", "idle"}
    /\ producerPc' = [producerPc EXCEPT ![p] = "scan"]
    /\ session' = [session EXCEPT ![p] = GetSession(session[p])]
    /\ UNCHANGED <<outerVars, aggVars, hpVars, prodVars, engVars, histVars, updateLog,
                   composite_scores, pairVars, optLog>>

\* the responses arrive and the rest of the try block runs: the scanner hands
\* a listing to submit_high_priority_signal, the other two call submit_signal;
\* then the loop sleeps, outside the try block (the narrative tracker without
\* momentum data: inside it)
ProducerScanDone(p, outcome) ==
    /\ producerPc[p] = "scan"
    /\ producerPc' = [producerPc EXCEPT ![p] = IF outcome = "idle" THEN "idle" ELSE "sleep"]
    /\ LET signal == [x \in (DOMAIN ProducerSignal(p)) \cup {"id"} |->
                        IF x = "id" THEN nextId ELSE ProducerSignal(p)[x]]
           out == HighPriorityOutcome(redis, signal, "ok")
       IN  IF outcome # "signal"
           THEN UNCHANGED <<outerVars, aggVars, hpVars, histVars>>
           ELSE IF p = "cex_scanner"
           THEN /\ published' = published \o out.published
                /\ hpLog' = Append(hpLog, [id |-> nextId,
                                           publish |-> IF redis = "None" THEN "none" ELSE "ok",
                                           attempts |-> out.attempts,
                                           log |-> out.log,
                                           raised |-> out.raised])
                /\ nextId' = nextId + 1
                /\ UNCHANGED <<outerVars, aggVars, redis, submitLog, gatherLog, handedLog, scanLog>>
           ELSE /\ SubmitSignalBody(signal)
                /\ nextId' = nextId + 1
                /\ UNCHANGED <<outerVars, signal_weights, recent_signals_buffer, aggPc, inflight, aggExit,
                               compositeLog, hpVars, gatherLog, handedLog, scanLog>>
    /\ UNCHANGED <<outerVars, session, prodVars, engVars, updateLog, composite_scores, pairVars, optLog>>

\* (mutant) the sleep between two iterations is covered by the handler too
ProducerCancelCovered(p) ==
    /\ producerPc[p] \in {"start", "scan", "idle", "sleep"}
    /\ producerPc' = [producerPc EXCEPT ![p] = IF producerPc[p] = "start" THEN "propagated"
                                                ELSE "break"]
    /\ session' = [session EXCEPT ![p] = CloseIfSet(session[p])]
    /\ UNCHANGED <<outerVars, aggVars, hpVars, prodVars, engVars, histVars, updateLog,
                   composite_scores, pairVars, optLog>>

\* the task of run_loop is cancelled: CancelledError is raised at the await
\* the loop is suspended at.  Inside the try block (the gather, the narrative
\* tracker's idle sleep) the handler closes the session and breaks; at the
\* sleep after the try block, or before the task has started, no handler
\* covers it and it leaves run_loop
ProducerCancel(p) ==
    /\ producerPc[p] \in {"start", "scan", "idle", "sleep"}
    /\ producerPc' = [producerPc EXCEPT ![p] = IF producerPc[p] \in {"scan", "idle"}
                                                THEN "break" ELSE "propagated"]
    /\ session' = [session EXCEPT ![p] = IF producerPc[p] \in {"scan", "idle"}
                                          THEN CloseIfSet(session[p]) ELSE session[p]]
    /\ UNCHANGED <<outerVars, aggVars, hpVars, prodVars, engVars, histVars, updateLog,
                   composite_scores, pairVars, optLog>>

NextProducers ==
    \/ \E p \in Producers : ProducerEnterScan(p)
    \/ \E p \in Producers : \E outcome \in ScanOutcomes(p) :
        (outcome = "signal" => nextId <= MaxProducerSignals) /\ ProducerScanDone(p, outcome)
    \/ \E p \in Producers : ProducerCancel(p)

SpecProducers == Init /\ [][NextProducers]_vars

\* the run_loop of producer p has ended
ProducerEnded(p) == producerPc[p] \in {"break", "propagated"}

\* C21: when a producer loop that holds a network session is cancelled, during
\* a scan or during the sleep between two iterations, its session is closed by
\* the time the loop has ended: no ended loop leaves an open session behind.
C21_SessionClosedWhenLoopEnds ==
    \A p \in Producers : ProducerEnded(p) => session[p] # "open"

----------------------------------------------------------------------------
\* C22: every successfully processed signal is folded into the composite score
\* of its own asset: once _update_composite_signal has run for a signal, the
\* asset of that signal has a composite score.
C22_FoldedIntoCompositeScore ==
    \A k \in 1..Len(compositeLog) : compositeLog[k].asset \in DOMAIN composite_scores

----------------------------------------------------------------------------
(* Malformed signals: dicts that lack one of the required fields, submitted  *)
(* among well-formed signals of the same asset and direction.                *)

GoodSignal ==
    [type |-> "LIQUIDITY_FLOW", asset |-> "ETH", strength |-> Strength08, direction |-> "bullish"]
\* the dict without the key f
WithoutField(signal, f) == [x \in (DOMAIN signal) \ {f} |-> signal[x]]
MalformedInputs == {WithoutField(GoodSignal, f) : f \in RequiredFields}

NextMalformed ==
    \/ \E s \in MalformedInputs \cup {GoodSignal} :
        nextId <= MaxMalformedSignals /\ SubmitSignal(s)
    \/ AggGet
    \/ AggProcess
    \/ AggWake

SpecMalformed == Init /\ [][NextMalformed]_vars

\* the signal handed over k-th lacks field f and was dropped
DroppedWithout(k, f) ==
    /\ k <= Len(handedLog)
    /\ f \notin DOMAIN SubmittedSignal(handedLog[k])
    /\ Failed(handedLog[k])

\* C23: the step that processes a dequeued signal lacking type, asset, strength
\* or direction changes no confirmation buffer, makes no composite update and
\* leaves the weight table as it is; no buffer ever holds a malformed signal,
\* and a signal with no earlier well-formed signal of its asset and direction
\* is not boosted, whatever malformed signals came before it.
C23_MalformedDropped ==
    /\ [][(HandStep /\ ~WellFormed(StepSignal)) =>
            /\ recent_signals_buffer' = recent_signals_buffer
            /\ compositeLog' = compositeLog
            /\ composite_scores' = composite_scores
            /\ signal_weights' = signal_weights]_vars
    /\ [](\A a \in DOMAIN recent_signals_buffer :
            \A i \in 1..Len(recent_signals_buffer[a]) : WellFormed(recent_signals_buffer[a][i]))
    /\ [](\A k \in 1..Len(compositeLog) :
            /\ WellFormed(SubmittedSignal(compositeLog[k].id))
            /\ Unconfirmed(k) =>
                REq(compositeLog[k].weighted_strength, Unboosted(SubmittedSignal(compositeLog[k].id))))

\* C23 witness: a signal without type and one without strength, both with
\* asset ETH and direction bullish, were dropped, and the well-formed bullish
\* ETH signal processed after them got 0.8 x 0.2 = 0.16, unboosted.
C23_Witness ==
    /\ Len(handedLog) = 3
    /\ DroppedWithout(1, "type")
    /\ DroppedWithout(2, "strength")
    /\ Len(compositeLog) = 1
    /\ compositeLog[1].id = handedLog[3]
    /\ REq(compositeLog[1].weighted_strength, Rat(16, 100))
    /\ Len(recent_signals_buffer["ETH"]) = 1

----------------------------------------------------------------------------
(* The ceiling of the weighted strength: update_weights called with tables   *)
(* of small weights, signals of types in and not in the table.               *)

\* every type of the table of __init__ set to 0.05
LowWeights == [t \in DOMAIN DefaultWeights |-> Rat(5, 100)]
CeilingWeightInputs == {LowWeights, [X |-> Rat(42, 100)]}

NextCeiling ==
    \/ \E s \in WeightSignals : nextId <= MaxWeightSignals /\ SubmitSignal(s)
    \/ \E w \in CeilingWeightInputs : Len(updateLog) < MaxUpdates /\ UpdateWeights(w)
    \/ AggGet
    \/ AggProcess

SpecCeiling == Init /\ [][NextCeiling]_vars

\* the types stored in the weight table after the first n calls of update_weights
StoredTypes(n) ==
    (DOMAIN DefaultWeights) \cup UNION {DOMAIN updateLog[u].new_weights : u \in 1..n}
\* the largest weight stored in the table after the first n calls
LargestStored(n) ==
    LET stored == {WeightAfter(t, n) : t \in StoredTypes(n)}
    IN  CHOOSE w \in stored : \A v \in stored : ~RGt(v, w)
\* strength in [0, 1]
UnitStrength(signal) == ~RLt(signal.strength, RInt(0)) /\ ~RGt(signal.strength, RInt(1))

\* C24: for every processed signal with strength in [0, 1], the weighted
\* strength passed to the composite update is at most 1.25 x the largest weight
\* stored in the weight table when the signal was processed.
C24_BoostedCeiling ==
    \A k \in 1..Len(compositeLog) :
        LET e == compositeLog[k]
            n == Cardinality(UpdatesBefore(HandedPos(e.id)))
        IN  UnitStrength(SubmittedSignal(e.id)) =>
                ~RGt(e.weighted_strength, RMul(BoostFactor, LargestStored(n)))

----------------------------------------------------------------------------
\* the z-score scan i computed for the group named g
ZOf(i, g) == (CHOOSE k \in 1..Len(scanLog[i].zs) : scanLog[i].zs[k].group = g)
\* the signals of direction d submitted by scan i
SubmittedIn(i, d) == SelectSeq(scanLog[i].submitted, LAMBDA s : s.direction = d)

\* C25: every StatArb signal, entry or exit, has strength |z| / 3 when that is
\* below 0.9 and 0.9 otherwise, z being the z-score of its group in the scan
\* that submitted it; so the strength is in [0, 0.9].
C25_StrengthFromZ ==
    \A i \in Scans : \A n \in 1..Len(scanLog[i].submitted) :
        LET s == scanLog[i].submitted[n]
            z == scanLog[i].zs[ZOf(i, s.asset)].z
            third == RDiv(RAbs(z), RInt(3))
        IN  /\ \E k \in 1..Len(scanLog[i].zs) : scanLog[i].zs[k].group = s.asset
            /\ IF RLt(third, Rat(9, 10)) THEN REq(s.strength, third)
               ELSE REq(s.strength, Rat(9, 10))
            /\ ~RLt(s.strength, RInt(0))
            /\ ~RGt(s.strength, Rat(9, 10))

\* C25 witness: an entry at z = 925.87 and one at z = 3 with strength 0.9 (capped), an
\* exit at z = -2.5 with strength 2.5 / 3 and an exit at z = 0 with strength 0.
C25_Witness ==
    /\ \E i \in Scans :
        /\ RGt(ZAt(i), RInt(900))
        /\ Len(SubmittedIn(i, "ENTER_SHORT")) = 1
        /\ REq(SubmittedIn(i, "ENTER_SHORT")[1].strength, Rat(9, 10))
    /\ \E i \in Scans :
        /\ REq(ZAt(i), RInt(3))
        /\ Len(SubmittedIn(i, "ENTER_SHORT")) = 1
        /\ REq(SubmittedIn(i, "ENTER_SHORT")[1].strength, Rat(9, 10))
    /\ \E i \in Scans :
        /\ REq(ZAt(i), Rat(-25, 10))
        /\ Len(SubmittedIn(i, "EXIT_SHORT")) = 1
        /\ REq(SubmittedIn(i, "EXIT_SHORT")[1].strength, Rat(25, 30))
    /\ \E i \in Scans :
        /\ REq(ZAt(i), RInt(0))
        /\ Len(SubmittedIn(i, "EXIT_SHORT")) = 1
        /\ REq(SubmittedIn(i, "EXIT_SHORT")[1].strength, RInt(0))

----------------------------------------------------------------------------
\* the k-th composite update got the confirmation boost
Boosted(k) ==
    LET s == SubmittedSignal(compositeLog[k].id)
    IN  /\ REq(compositeLog[k].weighted_strength, Boost(Unboosted(s)))
        /\ ~REq(compositeLog[k].weighted_strength, Unboosted(s))

\* C26: a signal is boosted only if an earlier processed signal of its asset
\* and direction has a different signal type; signals of one type never boost
\* each other.
C26_BoostNeedsOtherType ==
    \A k \in 1..Len(compositeLog) :
        Boosted(k) =>
            \E j \in 1..(k - 1) :
                /\ compositeLog[j].asset = compositeLog[k].asset
                /\ compositeLog[j].direction = compositeLog[k].direction
                /\ SubmittedSignal(compositeLog[j].id).type # SubmittedSignal(compositeLog[k].id).type

----------------------------------------------------------------------------
(* WeightOptimizer.  What the training produces is an input of a cycle: the  *)
(* source trains on five fixed rows, fewer than the 50 it requires.          *)

\* the methods of AdvancedSignalAggregator
AggregatorMethods ==
    {"submit_signal", "submit_high_priority_signal", "update_weights", "_process_signal",
     "_check_for_confirmation", "_update_composite_signal", "run_aggregator_loop"}

\* the method optimize_weights calls on the aggregator with its new weights
OptimizerUpdateMethod == "update_regime_weights"

\* the outcomes of the training of one cycle: whether there were the 50 rows
\* to train on, and the dict all_new_weights (regime -> weights by signal
\* type), empty when every regime was skipped
RegimeWeights ==
    [Bullish |-> [WHALE_TRADE |-> RInt(1), LIQUIDITY_FLOW |-> Rat(1, 10)]]
TrainingOutcomes ==
    {[enough_rows |-> FALSE, all_new_weights |-> EmptyDict],
     [enough_rows |-> TRUE, all_new_weights |-> EmptyDict],
     [enough_rows |-> TRUE, all_new_weights |-> RegimeWeights]}

\* (mutant) the optimizer calls update_weights with the weights of its regimes
OptimizeWeightsUpdating(weights, training) ==
    IF ~training.enough_rows \/ DOMAIN training.all_new_weights = {}
    THEN [weights |-> weights, all_new_weights |-> EmptyDict, ended |-> "returned"]
    ELSE [weights |-> DictUpdate(weights, training.all_new_weights[
                        CHOOSE r \in DOMAIN training.all_new_weights : TRUE]),
          all_new_weights |-> training.all_new_weights, ended |-> "updated"]

\* optimize_weights: returns early on too few rows and on no new weights;
\* otherwise it calls OptimizerUpdateMethod on the aggregator, which raises
\* AttributeError when the aggregator has no such method
OptimizeWeights(weights, training) ==
    IF ~training.enough_rows \/ DOMAIN training.all_new_weights = {}
    THEN [weights |-> weights, all_new_weights |-> EmptyDict, ended |-> "returned"]
    ELSE IF OptimizerUpdateMethod \notin AggregatorMethods
    THEN [weights |-> weights, all_new_weights |-> training.all_new_weights,
          ended |-> "AttributeError"]
    ELSE [weights |-> DictUpdate(weights, training.all_new_weights),
          all_new_weights |-> training.all_new_weights, ended |-> "updated"]

\* one iteration of WeightOptimizer.run_loop: optimize_weights inside try, an
\* exception logged by the handler, then the sleep of 7200 s
OptimizerCycle(training) ==
    LET out == OptimizeWeights(signal_weights, training)
    IN  /\ signal_weights' = out.weights
        /\ optLog' = Append(optLog, [all_new_weights |-> out.all_new_weights,
                                     ended |-> out.ended,
                                     weights_after |-> out.weights,
                                     handed |-> Len(handedLog)])
        /\ UNCHANGED <<outerVars, signal_queue, unfinished_tasks, recent_signals_buffer, aggPc, inflight,
                       aggExit, compositeLog, hpVars, prodVars, engVars, histVars, updateLog,
                       composite_scores, sessVars, pairVars>>

NextOptimizer ==
    \/ \E training \in TrainingOutcomes : Len(optLog) < MaxCycles /\ OptimizerCycle(training)
    \/ \E s \in WeightSignals : nextId <= MaxWeightSignals /\ SubmitSignal(s)
    \/ AggGet
    \/ AggProcess

SpecOptimizer == Init /\ [][NextOptimizer]_vars

----------------------------------------------------------------------------
\* the signals of asset a that went through _process_signal, in processing order
ProcessedOf(a) ==
    LET entries == SelectSeq(compositeLog, LAMBDA e : e.asset = a)
    IN  [i \in 1..Len(entries) |-> SubmittedSignal(entries[i].id)]

\* C28: the confirmation buffer of every asset with a processed signal holds
\* at most 10 signals: all processed signals of the asset while there are 10
\* or fewer, else the 10 processed last, in processing order.
C28_BufferHoldsLastTen ==
    /\ DOMAIN recent_signals_buffer = {compositeLog[k].asset : k \in 1..Len(compositeLog)}
    /\ \A a \in DOMAIN recent_signals_buffer :
        LET buffer == recent_signals_buffer[a]
            processed == ProcessedOf(a)
            dropped == Len(processed) - Len(buffer)
        IN  /\ Len(buffer) <= 10
            /\ Len(buffer) = (IF Len(processed) <= 10 THEN Len(processed) ELSE 10)
            /\ \A i \in 1..Len(buffer) : buffer[i] = processed[dropped + i]

\* C28 witness: eleven ETH signals were processed and the buffer holds the
\* second to the eleventh of them.
C28_Witness ==
    /\ Len(ProcessedOf("ETH")) = 11
    /\ Len(recent_signals_buffer["ETH"]) = 10
    /\ recent_signals_buffer["ETH"][1] = ProcessedOf("ETH")[2]
    /\ recent_signals_buffer["ETH"][10] = ProcessedOf("ETH")[11]

----------------------------------------------------------------------------
\* C29: in every state, whatever the number of pending signals and whether the
\* consumer is waiting, processing, sleeping or stopped, a call of
\* submit_signal can run to its end, and so can every task of a pending gather.
C29_SubmitNeverWaits ==
    /\ \A s \in DirectInputs : ENABLED SubmitSignal(s)
    /\ gatherTasks # <<>> => ENABLED GatherTaskStep

\* C29 witness: the consumer has stopped without having taken a signal, and
\* all the signals of the run were submitted and are pending.
C29_Witness ==
    /\ aggPc = "stopped"
    /\ handedLog = <<>>
    /\ Len(submitLog) = MaxSignals
    /\ Len(signal_queue) = MaxSignals

----------------------------------------------------------------------------
(* The PairCreated event: the whale watcher's listener registry, the dispatch *)
(* of _parse_shyft_payload and the handler of FirstMoverDetector.  None is    *)
(* the string "None".                                                         *)

\* `not x` for a string or None
Falsy(x) == x \in {"None", ""}

\* 'Uniswap' in protocol
IsUniswap(protocol) == protocol \in {"Uniswap V2", "Uniswap V3"}

\* register_event_listener
RegisterEventListener(event_type, callback) ==
    /\ event_listeners' =
        DictSet(event_listeners, event_type,
                Append(DictGet(event_listeners, event_type, <<>>), callback))
    /\ UNCHANGED <<outerVars, aggVars, hpVars, prodVars, engVars, histVars, updateLog,
                   composite_scores, sessVars, optLog, dispatchTasks, deliveryLog>>

\* the first buyers of a new pool (the source's fixed list)
FirstBuyers == <<"0xWallet1_Smart", "0xWallet2_Dumb", "0xWallet3_Smart">>

\* the smart_money_score above which a first buyer gives a signal
SmartMoneyThreshold == 50

\* _process_first_buyer: the signal of a first buyer whose score is above the threshold
SmartMoneySignal(token_address, score) ==
    [type |-> "SMART_MONEY_BUY", asset |-> token_address,
     strength |-> RMin(Rat(score, 100), Rat(85, 100)), direction |-> "bullish"]

\* handle_new_pair_event: reads pair_address and token1_address from the event
\* data and returns when one of them is missing or empty; otherwise every first
\* buyer is processed, the ones with a high score giving a signal.  scores is
\* what the database holds for the buyers
HandleNewPairEvent(event_data, scores) ==
    LET pair_address == DictGet(event_data, "pair_address", "None")
        token_address == DictGet(event_data, "token1_address", "None")
        smart == SelectSeq(FirstBuyers, LAMBDA b : scores[b] > SmartMoneyThreshold)
    IN  IF Falsy(pair_address) \/ Falsy(token_address)
        THEN [result |-> "returned_early", signals |-> <<>>]
        ELSE [result |-> "processed",
              signals |-> [i \in 1..Len(smart) |-> SmartMoneySignal(token_address, scores[smart[i]])]]

\* a registered callback is called with the event data
CallListener(callback, event_data, scores) ==
    IF callback = "handle_new_pair_event"
    THEN HandleNewPairEvent(event_data, scores)
    ELSE [result |-> "called", signals |-> <<>>]

\* the data of the PairCreated event built from a CREATE_POOL action
PairCreatedData(tx_details, info) ==
    [transaction_hash |-> tx_details.transaction_hash,
     pair_address |-> DictGet(info, "pool_address", "None"),
     token0 |-> DictGet(info, "token0", "None"),
     token1 |-> DictGet(info, "token1", "None")]

\* _parse_shyft_payload: a large TOKEN_SWAP gives a WHALE_TRADE signal, a
\* CREATE_POOL of a Uniswap protocol a task that dispatches PairCreated
RECURSIVE ParseActions(_, _, _)
ParseActions(tx_details, k, acc) ==
    IF k > Len(tx_details.actions) THEN acc
    ELSE LET action == tx_details.actions[k]
             info == action.info
         IN  IF action.type = "TOKEN_SWAP" /\ info.amount_in_usd > 50000
             THEN ParseActions(tx_details, k + 1,
                    [acc EXCEPT !.signals = Append(@,
                        [type |-> "WHALE_TRADE", asset |-> info.token_in,
                         strength |-> RMin(Rat(info.amount_in_usd, 100000), Rat(9, 10)),
                         direction |-> "bearish"])])
             ELSE IF action.type = "CREATE_POOL" /\ IsUniswap(DictGet(info, "protocol", ""))
             THEN ParseActions(tx_details, k + 1,
                    [acc EXCEPT !.events = Append(@,
                        [event_type |-> "PairCreated", data |-> PairCreatedData(tx_details, info)])])
             ELSE ParseActions(tx_details, k + 1, acc)

ParseShyftPayload(tx_details) == ParseActions(tx_details, 1, [signals |-> <<>>, events |-> <<>>])

\* the signals numbered from n on
Numbered(signals, n) ==
    [i \in 1..Len(signals) |->
        [x \in (DOMAIN signals[i]) \cup {"id"} |-> IF x = "id" THEN n + i - 1 ELSE signals[i][x]]]

\* process_callback_queue for one webhook item: the payload is parsed, which
\* creates the dispatch tasks, and the parsed signals become the submit_signal
\* tasks of one gather
ProcessShyftItem(tx_details) ==
    LET parsed == ParseShyftPayload(tx_details)
    IN  /\ gatherTasks = <<>>
        /\ dispatchTasks' = dispatchTasks \o parsed.events
        /\ gatherTasks' = Numbered(parsed.signals, nextId)
        /\ gatherLog' = gatherLog \o [i \in 1..Len(parsed.signals) |-> nextId + i - 1]
        /\ nextId' = nextId + Len(parsed.signals)
        /\ UNCHANGED <<outerVars, aggVars, hpVars, engVars, submitLog, handedLog, scanLog, updateLog,
                       composite_scores, sessVars, optLog, event_listeners, deliveryLog>>

RECURSIVE Flatten(_)
Flatten(seqs) == IF seqs = <<>> THEN <<>> ELSE Head(seqs) \o Flatten(Tail(seqs))

\* _dispatch_event: the callbacks registered for the event type, in order of
\* registration; none when the type has no entry
ListenersOf(listeners, event_type) ==
    IF event_type \in DOMAIN listeners THEN listeners[event_type] ELSE <<>>

\* a task created for _dispatch_event runs: every callback registered for the
\* event type is called once with the event data, in one gather
DispatchEvent(scores) ==
    /\ dispatchTasks # <<>>
    /\ LET task == Head(dispatchTasks)
           listeners == ListenersOf(event_listeners, task.event_type)
           outs == [i \in 1..Len(listeners) |-> CallListener(listeners[i], task.data, scores)]
           signals == Numbered(Flatten([i \in 1..Len(outs) |-> outs[i].signals]), nextId)
       IN  /\ dispatchTasks' = Tail(dispatchTasks)
           /\ deliveryLog' = Append(deliveryLog,
                [event_type |-> task.event_type, data |-> task.data,
                 registered |-> DictGet(event_listeners, task.event_type, <<>>),
                 calls |-> [i \in 1..Len(outs) |->
                              [callback |-> listeners[i], result |-> outs[i].result]]])
           /\ signal_queue' = signal_queue \o signals
           /\ unfinished_tasks' = unfinished_tasks + Len(signals)
           /\ submitLog' = submitLog \o signals
           /\ nextId' = nextId + Len(signals)
    /\ UNCHANGED <<outerVars, signal_weights, recent_signals_buffer, aggPc, inflight, aggExit, compositeLog,
                   hpVars, prodVars, engVars, gatherLog, handedLog, scanLog, updateLog,
                   composite_scores, sessVars, optLog, event_listeners>>

\* ---- inputs of the PairCreated specification
CreatePool(protocol, pool_address) ==
    [type |-> "CREATE_POOL",
     info |-> [protocol |-> protocol, pool_address |-> pool_address,
               token0 |-> "WETH", token1 |-> "NEW"]]
TokenSwap ==
    [type |-> "TOKEN_SWAP", info |-> [amount_in_usd |-> 60000, token_in |-> "ETH"]]
ShyftPayloads ==
    {[transaction_hash |-> "0xtx", actions |-> <<a>>] :
        a \in {CreatePool("Uniswap V2", "0xPool"), CreatePool("Uniswap V2", "None"),
               CreatePool("SushiSwap", "0xPool"), TokenSwap}}
Callbacks == {"handle_new_pair_event", "other_listener"}
EventTypes == {"PairCreated", "LargeTransfer"}
ScoreInputs ==
    {[b \in Range(FirstBuyers) |-> 0],
     [b \in Range(FirstBuyers) |-> IF b = "0xWallet1_Smart" THEN 80 ELSE 0]}

\* the number of registrations made
Registrations ==
    Len(DictGet(event_listeners, "PairCreated", <<>>))
        + Len(DictGet(event_listeners, "LargeTransfer", <<>>))

NextPair ==
    \/ \E t \in EventTypes : \E c \in Callbacks :
        Registrations < MaxListeners /\ RegisterEventListener(t, c)
    \/ \E p \in ShyftPayloads :
        /\ Len(dispatchTasks) + Len(deliveryLog) + Len(ParseShyftPayload(p).events) <= MaxPairEvents
        /\ nextId + Len(ParseShyftPayload(p).signals) - 1 <= MaxPairSignals
        /\ ProcessShyftItem(p)
    \/ GatherTaskStep
    \/ \E scores \in ScoreInputs : DispatchEvent(scores)

SpecPair == Init /\ [][NextPair]_vars

\* the callbacks called by the k-th dispatch, in order
CalledBy(k) == [i \in 1..Len(deliveryLog[k].calls) |-> deliveryLog[k].calls[i].callback]

\* every dispatch called each callback registered for its event type once
DeliveredOnceToEveryListener ==
    \A k \in 1..Len(deliveryLog) : CalledBy(k) = deliveryLog[k].registered

\* C30: every PairCreated event dispatched for a pool with a pool address is
\* delivered once to every listener registered for PairCreated, and the
\* handler of FirstMoverDetector, when registered, processes the first buyers
\* of the pool: it does not return early.
C30_PairCreatedReachesFirstMovers ==
    \A k \in 1..Len(deliveryLog) :
        LET d == deliveryLog[k]
        IN  (d.event_type = "PairCreated" /\ ~Falsy(d.data.pair_address)) =>
                /\ CalledBy(k) = d.registered
                /\ \A i \in 1..Len(d.calls) :
                    d.calls[i].callback = "handle_new_pair_event" =>
                        d.calls[i].result = "processed"

\* ======================================================================
\* DBManager: the shared pool, create and close, the queries with retry
\* ======================================================================

\* what self._pool of manager m is: 0 (None) or the number of a pool
PoolOf(m) == managers[m].pool

\* the state of pool number n; None has none
PoolState(n) == IF n = 0 THEN "None" ELSE pools[n]

\* asyncpg.create_pool and _initialize_db_schema, as create sees them
CreateOutcomes == {"ok", "pool_failed", "schema_failed"}

\* DBManager.create: the pool is created only while the class attribute is None;
\* cls._pool is assigned before the schema is initialised, so a failing schema
\* leaves the new pool in the class attribute and no manager is returned
CreateManager(outcome) ==
    LET made == cls_pool = 0 /\ outcome # "pool_failed"
        pool == IF made THEN Len(pools) + 1 ELSE cls_pool
        returned == cls_pool # 0 \/ outcome = "ok"
    IN  /\ pools' = IF made THEN Append(pools, "open") ELSE pools
        /\ cls_pool' = pool
        /\ managers' = IF returned
                        THEN Append(managers,
                                    [pool |-> pool,
                                     got |-> IF made THEN "open" ELSE PoolState(pool)])
                        ELSE managers

Create(outcome) ==
    /\ Len(managers) < MaxManagers
    /\ dbCall.state = "idle"
    /\ CreateManager(outcome)
    /\ UNCHANGED <<aggVars, hpVars, prodVars, engVars, histVars, updateLog, sideVars,
                   annVars, vcVars, execVars, mainVars, dbCall, dbLog>>

\* close of one manager: closes its pool and clears its own self._pool; the
\* class attribute is not touched
CloseManager(m) ==
    /\ pools' = IF PoolOf(m) # 0 THEN [pools EXCEPT ![PoolOf(m)] = "closed"] ELSE pools
    /\ managers' = [managers EXCEPT ![m].pool = 0]

Close(m) ==
    /\ m \in 1..Len(managers)
    /\ dbCall.state = "idle"
    /\ CloseManager(m)
    /\ UNCHANGED <<aggVars, hpVars, prodVars, engVars, histVars, updateLog, sideVars,
                   annVars, vcVars, execVars, mainVars, cls_pool, dbCall, dbLog>>

\* the loop condition of both retry methods, with a variant that tries once more
KeepTryingInclusive(attempt, retries) == attempt <= retries

KeepTrying(attempt, retries) == attempt < retries

\* what one attempt can do: on an open pool the query succeeds, or fails with a
\* connection error (PostgresConnectionError, OSError) or with another error; a
\* manager whose pool is None or closed fails at acquire with another error
AttemptOutcomes(m) ==
    IF PoolState(PoolOf(m)) = "open"
    THEN {"ok", "connection_error", "other_error"}
    ELSE {"other_error"}

\* what the finished call hands to its caller
ReturnValue(kind, success) ==
    IF kind = "fetch_with_retry" THEN (IF success THEN "rows" ELSE "[]") ELSE "None"

Finished(call, result, value) ==
    [kind |-> call.kind, manager |-> call.manager, retries |-> call.retries,
     outcomes |-> call.outcomes, result |-> result, value |-> value]

RetryKinds == {"execute_with_retry", "fetch_with_retry"}

\* the call starts: attempt = 0
StartWithRetry(m, kind, retries) ==
    /\ dbCall.state = "idle"
    /\ Len(dbLog) < MaxDbCalls
    /\ m \in 1..Len(managers)
    /\ dbCall' = [kind |-> kind, manager |-> m, retries |-> retries, attempt |-> 0,
                  outcomes |-> <<>>, state |-> "loop"]
    /\ UNCHANGED <<aggVars, hpVars, prodVars, engVars, histVars, updateLog, sideVars,
                   annVars, vcVars, execVars, mainVars, cls_pool, pools, managers, dbLog>>

\* one pass of the while loop: the query is tried; success returns, a connection
\* error counts the attempt and sleeps, any other error leaves the method
AttemptQuery(outcome) ==
    /\ dbCall.state = "loop"
    /\ KeepTrying(dbCall.attempt, dbCall.retries)
    /\ outcome \in AttemptOutcomes(dbCall.manager)
    /\ LET call == [dbCall EXCEPT !.outcomes = Append(@, outcome)]
       IN  CASE outcome = "ok" ->
                    /\ dbLog' = Append(dbLog,
                                       Finished(call, "returned",
                                                ReturnValue(call.kind, TRUE)))
                    /\ dbCall' = IdleCall
              [] outcome = "connection_error" ->
                    /\ dbCall' = [call EXCEPT !.attempt = @ + 1, !.state = "sleep"]
                    /\ dbLog' = dbLog
              [] OTHER ->
                    /\ dbLog' = Append(dbLog, Finished(call, "raised", "None"))
                    /\ dbCall' = IdleCall
    /\ UNCHANGED <<aggVars, hpVars, prodVars, engVars, histVars, updateLog, sideVars,
                   annVars, vcVars, execVars, mainVars, cls_pool, pools, managers>>

\* asyncio.sleep(delay) is over
RetryWake ==
    /\ dbCall.state = "sleep"
    /\ dbCall' = [dbCall EXCEPT !.state = "loop"]
    /\ UNCHANGED <<aggVars, hpVars, prodVars, engVars, histVars, updateLog, sideVars,
                   annVars, vcVars, execVars, mainVars, cls_pool, pools, managers, dbLog>>

\* the loop is left: the error line is logged and the method returns
GiveUp ==
    /\ dbCall.state = "loop"
    /\ ~KeepTrying(dbCall.attempt, dbCall.retries)
    /\ dbLog' = Append(dbLog, Finished(dbCall, "returned", ReturnValue(dbCall.kind, FALSE)))
    /\ dbCall' = IdleCall
    /\ UNCHANGED <<aggVars, hpVars, prodVars, engVars, histVars, updateLog, sideVars,
                   annVars, vcVars, execVars, mainVars, cls_pool, pools, managers>>

\* retries: int = 3 in both signatures
DefaultRetries == 3

RetriesInputs == {0, 1, DefaultRetries}

NextDb ==
    \/ \E outcome \in CreateOutcomes : Create(outcome)
    \/ \E m \in 1..MaxManagers : Close(m)
    \/ \E m \in 1..MaxManagers, kind \in RetryKinds, retries \in RetriesInputs :
            StartWithRetry(m, kind, retries)
    \/ \E outcome \in {"ok", "connection_error", "other_error"} : AttemptQuery(outcome)
    \/ RetryWake
    \/ GiveUp

SpecDb == Init /\ [][NextDb]_vars

\* the calls finished and the one in progress, as far as the attempts go
RetryCalls ==
    Range(dbLog) \cup
        (IF dbCall.state = "idle" THEN {}
         ELSE {[kind |-> dbCall.kind, retries |-> dbCall.retries,
                outcomes |-> dbCall.outcomes, result |-> "running", value |-> "None",
                manager |-> dbCall.manager]})

AllConnectionErrors(c) ==
    /\ Len(c.outcomes) = c.retries
    /\ \A i \in 1..Len(c.outcomes) : c.outcomes[i] = "connection_error"

\* C31: a call of execute_with_retry or fetch_with_retry tries the query at most
\* `retries` times, tries again only after a connection error (so never after a
\* success), and after `retries` connection errors in a row it returns without
\* raising, fetch_with_retry with an empty list.
C31_BoundedRetries ==
    \A c \in RetryCalls :
        /\ Len(c.outcomes) <= c.retries
        /\ \A i \in 1..(Len(c.outcomes) - 1) : c.outcomes[i] = "connection_error"
        /\ (c.result # "running" /\ AllConnectionErrors(c)) =>
                /\ c.result = "returned"
                /\ c.value = (IF c.kind = "fetch_with_retry" THEN "[]" ELSE "None")
        /\ c.result = "raised" => c.outcomes[Len(c.outcomes)] = "other_error"

\* three connection errors have ended a fetch with the default retries with []
C31_Witness ==
    \E c \in Range(dbLog) :
        /\ c.kind = "fetch_with_retry" /\ c.retries = DefaultRetries
        /\ c.outcomes = <<"connection_error", "connection_error", "connection_error">>
        /\ c.result = "returned"
        /\ c.value = "[]"

\* C39: every manager returned by create holds a pool that is open when it is
\* returned, also when a manager was closed before.
C39_CreateGivesOpenPool ==
    \A m \in 1..Len(managers) : managers[m].got = "open"

\* ======================================================================
\* VCWatcher: protocol touches and the convergence signal
\* ======================================================================

\* the names of CURATED_WALLETS
VcNames == {"a16z", "paradigm", "dragonfly"}

ConvergenceThreshold == 3

InvestmentTypes == {"DEPOSIT", "STAKE_TOKEN", "ADD_LIQUIDITY"}

\* _generate_convergence_signal: the signal built from the touch set, and the
\* touch state after it; a variant that keeps the protocol's set
ConvergenceSignal(touch, protocol_address) ==
    [type |-> "VC_CONVERGENCE", asset |-> "POTENTIAL_NEW_TOKEN", strength |-> Rat(85, 100),
     direction |-> "bullish_long_term", protocol_address |-> protocol_address,
     converged_vcs |-> touch[protocol_address],
     vc_count |-> Cardinality(touch[protocol_address])]

GenerateConvergenceSignalKeeping(touch, protocol_address) ==
    [signal |-> ConvergenceSignal(touch, protocol_address), touch |-> touch]

GenerateConvergenceSignal(touch, protocol_address) ==
    [signal |-> ConvergenceSignal(touch, protocol_address),
     touch |-> DictPop(touch, protocol_address)]

\* the body of the loop of _analyze_transaction for one action; st holds the
\* touch state, the signals submitted so far by this call and the touches made
AnalyzeAction(st, action, vc_name, n) ==
    IF action.type \in InvestmentTypes /\ ~Falsy(action.protocol_address)
    THEN LET p == action.protocol_address
             touched == DictSet(st.touch, p, DictGet(st.touch, p, {}) \cup {vc_name})
             converged == Cardinality(touched[p]) >= ConvergenceThreshold
             gen == GenerateConvergenceSignal(touched, p)
         IN  [touch |-> IF converged THEN gen.touch ELSE touched,
              signals |-> IF converged THEN Append(st.signals, gen.signal) ELSE st.signals,
              log |-> Append(st.log,
                             [vc |-> vc_name, protocol |-> p,
                              signal |-> IF converged THEN n + Len(st.signals) ELSE 0])]
    ELSE st

\* _analyze_transaction: the actions of one transaction, in order
RECURSIVE AnalyzeTransaction(_, _, _, _, _)
AnalyzeTransaction(st, actions, i, vc_name, n) ==
    IF i > Len(actions) THEN st
    ELSE AnalyzeTransaction(AnalyzeAction(st, actions[i], vc_name, n), actions, i + 1,
                            vc_name, n)

\* the loop of _footprint_wallet over the transactions of the response
RECURSIVE AnalyzeAll(_, _, _, _, _)
AnalyzeAll(st, transactions, i, vc_name, n) ==
    IF i > Len(transactions) THEN st
    ELSE AnalyzeAll(AnalyzeTransaction(st, transactions[i], 1, vc_name, n), transactions,
                    i + 1, vc_name, n)

\* the response of one footprinting task has arrived: its transactions are
\* analysed one after the other; nothing in between waits (submit_signal puts
\* into the unbounded queue), so the other tasks run before or after it
FootprintWallet(vc_name, transactions) ==
    LET st == AnalyzeAll([touch |-> protocol_touch_state, signals |-> <<>>, log |-> <<>>],
                         transactions, 1, vc_name, nextId)
        signals == Numbered(st.signals, nextId)
    IN  /\ Len(touchLog) + Len(st.log) <= MaxTouches
        /\ protocol_touch_state' = st.touch
        /\ touchLog' = touchLog \o st.log
        /\ signal_queue' = signal_queue \o signals
        /\ unfinished_tasks' = unfinished_tasks + Len(signals)
        /\ submitLog' = submitLog \o signals
        /\ nextId' = nextId + Len(signals)
        /\ UNCHANGED <<signal_weights, recent_signals_buffer, aggPc, inflight, aggExit,
                       compositeLog, hpVars, prodVars, engVars, gatherLog, handedLog,
                       scanLog, updateLog, sideVars, annVars, execVars, dbVars, mainVars>>

Protocols == {"0xProtocolA", "0xProtocolB"}

\* the transactions a Shyft response can hold: action lists
TransactionInputs ==
    {<<[type |-> "DEPOSIT", protocol_address |-> "0xProtocolA"]>>,
     <<[type |-> "SWAP", protocol_address |-> "0xProtocolA"]>>,
     <<[type |-> "ADD_LIQUIDITY", protocol_address |-> "None"]>>,
     <<[type |-> "DEPOSIT", protocol_address |-> "0xProtocolA"],
       [type |-> "STAKE_TOKEN", protocol_address |-> "0xProtocolB"]>>}

\* the responses: one transaction, or two that touch the same protocol
ResponseInputs ==
    {<<tx>> : tx \in TransactionInputs}
        \cup {<<<<[type |-> "DEPOSIT", protocol_address |-> "0xProtocolA"]>>,
                <<[type |-> "ADD_LIQUIDITY", protocol_address |-> "0xProtocolA"]>>>>}

NextVc ==
    \E vc_name \in VcNames, transactions \in ResponseInputs :
        FootprintWallet(vc_name, transactions)

SpecVc == Init /\ [][NextVc]_vars

\* the touches of protocol p, by position in touchLog
TouchesOf(p) == {i \in 1..Len(touchLog) : touchLog[i].protocol = p}

\* the last touch of p before position i that sent a signal (0: none)
PreviousSignal(p, i) ==
    LET earlier == {0} \cup {j \in TouchesOf(p) : j < i /\ touchLog[j].signal # 0}
    IN  CHOOSE j \in earlier : \A k \in earlier : k <= j

\* the VC names that touched p after position `from`, up to position `to`
TouchersBetween(p, from, to) ==
    {touchLog[j].vc : j \in {k \in TouchesOf(p) : k > from /\ k <= to}}

\* C32: a VC_CONVERGENCE signal for a protocol is submitted only at a touch that
\* makes it three distinct VC names since the start or since the previous signal for
\* that protocol; the touch set is cleared with the signal, so the set kept for a
\* protocol is always the names since its last signal and stays below three, and
\* each submitted signal names exactly the touches since the one before.
C32_ConvergenceNeedsThree ==
    /\ \A i \in 1..Len(touchLog) :
          LET p == touchLog[i].protocol
              since == TouchersBetween(p, PreviousSignal(p, i), i)
          IN  /\ touchLog[i].signal # 0 <=> Cardinality(since) >= ConvergenceThreshold
              /\ touchLog[i].signal # 0 =>
                    /\ touchLog[i].signal \in Ids(submitLog)
                    /\ SubmittedSignal(touchLog[i].signal).type = "VC_CONVERGENCE"
                    /\ SubmittedSignal(touchLog[i].signal).protocol_address = p
                    /\ SubmittedSignal(touchLog[i].signal).converged_vcs = since
    /\ \A p \in Protocols :
          /\ DictGet(protocol_touch_state, p, {})
                = TouchersBetween(p, PreviousSignal(p, Len(touchLog) + 1), Len(touchLog))
          /\ Cardinality(DictGet(protocol_touch_state, p, {})) < ConvergenceThreshold
    /\ Len(submitLog) = Cardinality({i \in 1..Len(touchLog) : touchLog[i].signal # 0})

\* two signals were sent for one protocol, the second after three new touches
C32_Witness ==
    \E i, j \in 1..Len(touchLog) :
        /\ i < j
        /\ touchLog[i].protocol = touchLog[j].protocol
        /\ touchLog[i].signal # 0
        /\ touchLog[j].signal # 0

\* ======================================================================
\* CEXListingScanner: announcements and the titles already known
\* ======================================================================

\* titles the parsers hand to _process_announcement, with what the keyword test
\* and _extract_symbol (its patterns are tried with re.IGNORECASE) make of them
Titles ==
    {"Binance Will List Token (XYZ)", "Kraken Lists ABC", "Coinbase adds support for DEF",
     "New listing rules", "Scheduled maintenance"}

HasKeyword(title) == title # "Scheduled maintenance"

ExtractSymbol(title) ==
    CASE title = "Binance Will List Token (XYZ)" -> "XYZ"
      [] title = "Kraken Lists ABC" -> "ABC"
      [] title = "Coinbase adds support for DEF" -> "DEF"
      [] OTHER -> "None"

Exchanges == {"Binance", "Kraken"}

\* self.known_announcements.add(title), with a variant that records nothing
KnownUnchanged(known, title) == known

KnownAdd(known, title) == known \cup {title}

\* _process_announcement up to the publish of submit_high_priority_signal: the
\* title is looked up, tested and recorded, the gas is computed (no await is
\* reached in _calculate_priority_gas) and the signal is handed over; without a
\* redis client the call ends at once, with one it waits in publish
ProcessAnnouncement(exchange, title) ==
    LET detected == /\ title \notin known_announcements
                    /\ HasKeyword(title)
                    /\ ExtractSymbol(title) # "None"
        signal == [type |-> "CEX_LISTING_ARBITRAGE", asset |-> ExtractSymbol(title),
                   strength |-> RInt(1), direction |-> "bullish", exchange |-> exchange,
                   announcement_title |-> title, id |-> nextId]
        out == HighPriorityOutcome(redis, signal, "ok")
    IN  /\ Len(announceLog) < MaxAnnouncements
        /\ IF ~detected
           THEN UNCHANGED <<annVars, hpVars, nextId>>
           ELSE /\ known_announcements' = KnownAdd(known_announcements, title)
                /\ announceLog' = Append(announceLog,
                                         [title |-> title, exchange |-> exchange,
                                          id |-> nextId])
                /\ nextId' = nextId + 1
                /\ IF redis = "None"
                   THEN /\ hpLog' = Append(hpLog, [id |-> nextId, publish |-> "none",
                                                   attempts |-> out.attempts,
                                                   log |-> out.log, raised |-> out.raised])
                        /\ UNCHANGED <<pendingAnnouncements, published, redis>>
                   ELSE /\ pendingAnnouncements' = Append(pendingAnnouncements, signal)
                        /\ UNCHANGED hpVars
        /\ UNCHANGED <<aggVars, prodVars, engVars, submitLog, gatherLog, handedLog, scanLog,
                       updateLog, sideVars, vcVars, execVars, dbVars, mainVars>>

\* the publish a call was waiting in returns or raises; the calls of the other
\* scan tasks may end in any order
PublishReturns(i, publish) ==
    /\ i \in 1..Len(pendingAnnouncements)
    /\ LET signal == pendingAnnouncements[i]
           out == HighPriorityOutcome(redis, signal, publish)
       IN  /\ published' = published \o out.published
           /\ hpLog' = Append(hpLog, [id |-> signal.id, publish |-> publish,
                                      attempts |-> out.attempts, log |-> out.log,
                                      raised |-> out.raised])
    /\ pendingAnnouncements' =
            [k \in 1..(Len(pendingAnnouncements) - 1) |->
                IF k < i THEN pendingAnnouncements[k] ELSE pendingAnnouncements[k + 1]]
    /\ UNCHANGED <<aggVars, prodVars, engVars, histVars, updateLog, sideVars, redis,
                   known_announcements, announceLog, vcVars, execVars, dbVars, mainVars>>

NextScanner ==
    \/ \E exchange \in Exchanges, title \in Titles : ProcessAnnouncement(exchange, title)
    \/ \E i \in 1..MaxAnnouncements, publish \in PublishOutcomes : PublishReturns(i, publish)

SpecScanner == InitHighPriority /\ [][NextScanner]_vars

\* how often submit_high_priority_signal was called for the title
TimesSubmitted(title) ==
    Cardinality({i \in 1..Len(announceLog) : announceLog[i].title = title})

\* the call numbered id ended without publishing the signal
Dropped(id) ==
    \E h \in 1..Len(hpLog) : hpLog[h].id = id /\ hpLog[h].log \in {"warning", "error"}

\* C33: each announcement title leads to at most one call of
\* submit_high_priority_signal; the title is known from the moment of the call,
\* also while the call waits and after the signal was dropped, so it is never
\* submitted again.
C33_OneSubmissionPerTitle ==
    /\ \A title \in Titles : TimesSubmitted(title) <= 1
    /\ \A i \in 1..Len(announceLog) : announceLog[i].title \in known_announcements
    /\ \A i \in 1..Len(pendingAnnouncements) :
          pendingAnnouncements[i].announcement_title \in known_announcements

\* a title was submitted and dropped, another one is waiting in publish, and
\* both are known
C33_Witness ==
    /\ \E i \in 1..Len(announceLog) :
          /\ Dropped(announceLog[i].id)
          /\ announceLog[i].title \in known_announcements
    /\ Len(pendingAnnouncements) > 0

\* the directions of the StatArb signals submitted for group g, in order
DirectionsOf(g) ==
    Directions(SelectSeq(submitLog,
                         LAMBDA s : s.type = "STATISTICAL_ARBITRAGE" /\ s.asset = g))

\* the entry an exit closes
EntryOf(direction) ==
    CASE direction = "EXIT_SHORT" -> "ENTER_SHORT"
      [] direction = "EXIT_LONG" -> "ENTER_LONG"
      [] OTHER -> "None"

\* the scans that changed the position of group g
PositionChanges(g) ==
    {i \in Scans : PositionOf(scanLog[i].before, g) # PositionOf(scanLog[i].positions, g)}

\* the position the last signal of the group stands for
PositionAfterDirections(ds) ==
    IF ds = <<>> THEN "FLAT"
    ELSE CASE ds[Len(ds)] = "ENTER_SHORT" -> "SHORT"
           [] ds[Len(ds)] = "ENTER_LONG" -> "LONG"
           [] OTHER -> "FLAT"

\* C34: for every group the StatArb signals alternate entry and matching exit:
\* the first is an entry, an exit follows the entry of its own side, an entry
\* follows an exit, and there are as many signals as position changes; the open
\* position is the one of the last signal. The runs include discovery refreshes.
C34_EntryExitAlternate ==
    \A g \in GroupNames :
        LET ds == DirectionsOf(g)
        IN  /\ \A k \in 1..Len(ds) :
                  IF ds[k] \in {"EXIT_SHORT", "EXIT_LONG"}
                  THEN k > 1 /\ ds[k - 1] = EntryOf(ds[k])
                  ELSE /\ ds[k] \in {"ENTER_SHORT", "ENTER_LONG"}
                       /\ k > 1 => ds[k - 1] \in {"EXIT_SHORT", "EXIT_LONG"}
            /\ Len(ds) = Cardinality(PositionChanges(g))
            /\ PositionOf(active_positions, g) = PositionAfterDirections(ds)

\* a group was entered short, left and entered long, with a discovery run after
\* the first entry
C34_Witness ==
    \E g \in GroupNames :
        /\ DirectionsOf(g) = <<"ENTER_SHORT", "EXIT_SHORT", "ENTER_LONG">>
        /\ \E i \in Scans : i > 1 /\ scanLog[i].discovery = "ran"

\* the consumer has taken every submitted signal off the queue and holds none
AllDequeued ==
    /\ submitLog # <<>>
    /\ signal_queue = <<>>
    /\ inflight = {}
    /\ \A id \in Ids(submitLog) : TimesHanded(id) = 1

\* C35: once the consumer has dequeued every submitted signal and is done with
\* it, the queue's count of unfinished tasks is zero, so that join() returns,
\* also when the processing of some of them failed.
C35_TaskDonePerDequeuedSignal ==
    AllDequeued => unfinished_tasks = 0

StepNewWeights == updateLog'[Len(updateLog')].new_weights

\* C37: the weight table changes only in a call of update_weights: processing a
\* signal, also one of a type the table does not hold, adds and changes no
\* entry; update_weights(new) sets exactly the keys of new and leaves the weight
\* of every other type as it was.
C37_WeightsChangeOnlyByUpdate ==
    [][/\ ~UpdateStep => signal_weights' = signal_weights
       /\ UpdateStep =>
            /\ DOMAIN signal_weights' = (DOMAIN signal_weights) \cup (DOMAIN StepNewWeights)
            /\ \A t \in DOMAIN StepNewWeights : signal_weights'[t] = StepNewWeights[t]
            /\ \A t \in (DOMAIN signal_weights) \ (DOMAIN StepNewWeights) :
                    signal_weights'[t] = signal_weights[t]]_vars

\* a signal of a type the table does not hold was processed, and an update has
\* added X and changed LIQUIDITY_FLOW while WHALE_TRADE kept its weight
C37_Witness ==
    /\ \E k \in 1..Len(compositeLog) :
          SubmittedSignal(compositeLog[k].id).type = "DERIVATIVES_GREED"
    /\ "DERIVATIVES_GREED" \notin DOMAIN signal_weights
    /\ "X" \in DOMAIN signal_weights
    /\ signal_weights["LIQUIDITY_FLOW"] = Rat(5, 10)
    /\ signal_weights["WHALE_TRADE"] = DefaultWeights["WHALE_TRADE"]

\* ======================================================================
\* TradeExecutor in paper mode: the _handle_signal tasks and the balance
\* ======================================================================

\* the tasks waiting for fetch_ticker
Fetching == execTasks.fetching["XYZ"] + execTasks.fetching["ABC"]

\* the test before a paper trade, with a variant that refuses only below zero
InsufficientFundsBelowZero(balance) == balance < 0

InsufficientFunds(balance) == balance < TradeSize

\* _execute_paper_trade from the return of fetch_ticker to the await of the
\* database call: no await lies in between, so the steps happen in one piece
PaperTrade(balance, positions, market_symbol, ticker) ==
    IF ticker.raised \/ ticker.last = 0
    THEN [balance |-> balance, positions |-> positions, outcome |-> "aborted"]
    ELSE IF InsufficientFunds(balance)
    THEN [balance |-> balance, positions |-> positions, outcome |-> "insufficient"]
    ELSE [balance |-> balance - TradeSize,
          positions |-> DictSet(positions, market_symbol,
                                [amount |-> RDiv(RInt(TradeSize), RInt(ticker.last)),
                                 entry_price |-> RInt(ticker.last)]),
          outcome |-> "executed"]

\* run_loop hands a message to a new _handle_signal task, which runs up to its
\* first await: fetch_ticker for a listing signal, the end for any other
HandleSignal(signal) ==
    /\ Fetching + execTasks.logging < MaxInFlight
    /\ Fetching + tradeLog.executed + tradeLog.insufficient < MaxExecutorSignals
    /\ execTasks' = IF signal.type = "CEX_LISTING_ARBITRAGE"
                     THEN [execTasks EXCEPT !.fetching[signal.asset] = @ + 1]
                     ELSE execTasks
    /\ UNCHANGED <<aggVars, hpVars, prodVars, engVars, histVars, updateLog, sideVars,
                   annVars, vcVars, dbVars, mainVars, paper_balance_usd, paper_positions,
                   tradeLog>>

\* fetch_ticker of one waiting task returns (the 'last' price or none) or raises
TickerReturns(symbol, ticker) ==
    /\ execTasks.fetching[symbol] > 0
    /\ LET out == PaperTrade(paper_balance_usd, paper_positions, symbol, ticker)
       IN  /\ paper_balance_usd' = out.balance
           /\ paper_positions' = out.positions
           /\ execTasks' = [execTasks EXCEPT
                                !.fetching[symbol] = @ - 1,
                                !.logging = IF out.outcome = "executed" THEN @ + 1 ELSE @]
           /\ tradeLog' = [tradeLog EXCEPT
                                !.executed = IF out.outcome = "executed" THEN @ + 1 ELSE @,
                                !.insufficient =
                                    IF out.outcome = "insufficient" THEN @ + 1 ELSE @]
    /\ UNCHANGED <<aggVars, hpVars, prodVars, engVars, histVars, updateLog, sideVars,
                   annVars, vcVars, dbVars, mainVars>>

\* execute_with_retry of a task that logs its trade returns or raises; the
\* task ends either way
PaperTradeLogged ==
    /\ execTasks.logging > 0
    /\ execTasks' = [execTasks EXCEPT !.logging = @ - 1]
    /\ UNCHANGED <<aggVars, hpVars, prodVars, engVars, histVars, updateLog, sideVars,
                   annVars, vcVars, dbVars, mainVars, paper_balance_usd, paper_positions,
                   tradeLog>>

ExecutorSignalInputs ==
    {[type |-> "CEX_LISTING_ARBITRAGE", asset |-> a, strength |-> RInt(1),
      direction |-> "bullish"] : a \in ListedSymbols}
        \cup {[type |-> "WHALE_TRADE", asset |-> "XYZ", strength |-> RInt(1),
               direction |-> "bullish"]}

\* what fetch_ticker gives: a ticker with a 'last' price, one without (None or
\* 0, here 0), or an exception
TickerInputs ==
    {[raised |-> FALSE, last |-> 2], [raised |-> FALSE, last |-> 0],
     [raised |-> TRUE, last |-> 0]}

NextExecutor ==
    \/ \E signal \in ExecutorSignalInputs : HandleSignal(signal)
    \/ \E symbol \in ListedSymbols, ticker \in TickerInputs : TickerReturns(symbol, ticker)
    \/ PaperTradeLogged

SpecExecutor == Init /\ [][NextExecutor]_vars

\* a step in which a paper trade was executed: its task went on to the database
TradeStep == execTasks'.logging = execTasks.logging + 1

\* C38: under any interleaving of the _handle_signal tasks in paper mode the
\* balance is never negative, it changes only by a trade, every executed trade
\* lowers it by exactly 500, and no trade is executed while it is below 500.
C38_PaperBalanceNeverNegative ==
    /\ [](paper_balance_usd >= 0)
    /\ [](paper_balance_usd = StartingBalance - TradeSize * tradeLog.executed)
    /\ [][/\ TradeStep => /\ paper_balance_usd >= TradeSize
                          /\ paper_balance_usd' = paper_balance_usd - TradeSize
          /\ paper_balance_usd' # paper_balance_usd => TradeStep]_vars

\* the balance is used up, a task was refused for insufficient funds while the
\* task of the last trade was still writing to the database
C38_Witness ==
    /\ paper_balance_usd = 0
    /\ tradeLog.insufficient >= 1
    /\ execTasks.logging >= 1

\* ======================================================================
\* main: start, supervision of the component tasks, shutdown
\* ======================================================================

\* the state of the pool main's db_manager was created with
MainPool == IF pools = <<>> THEN "None" ELSE pools[1]

\* the start of main: DBManager.create, the components, one task per component,
\* then main waits in gather. When create raises, main goes through its handler
\* and its finally with no manager and no task
MainStart(outcome) ==
    /\ mainPc = "start"
    /\ CreateManager(outcome)
    /\ mainPc' = IF outcome = "ok" THEN "running" ELSE "done"
    /\ taskState' = IF outcome = "ok" THEN [t \in Components |-> "running"] ELSE taskState
    /\ UNCHANGED <<aggVars, hpVars, prodVars, engVars, histVars, updateLog, sideVars,
                   annVars, vcVars, execVars, dbCall, dbLog, dbUseLog>>

\* a component task runs a piece of its loop, with the db manager it was given
TaskRuns(t) ==
    /\ taskState[t] = "running"
    /\ mainPc # "start"
    /\ Len(dbUseLog) < MaxTaskSteps
    /\ dbUseLog' = Append(dbUseLog, [task |-> t, step |-> "loop", pool |-> MainPool])
    /\ UNCHANGED <<aggVars, hpVars, prodVars, engVars, histVars, updateLog, sideVars,
                   annVars, vcVars, execVars, dbVars, mainPc, taskState>>

\* the coroutine of a component task raises: the task is done, and gather (without
\* return_exceptions) hands the exception to main at once, the other tasks go on
TaskRaises(t) ==
    /\ taskState[t] = "running"
    /\ taskState' = [taskState EXCEPT ![t] = "done"]
    /\ mainPc' = IF mainPc = "running" THEN "finally" ELSE mainPc
    /\ UNCHANGED <<aggVars, hpVars, prodVars, engVars, histVars, updateLog, sideVars,
                   annVars, vcVars, execVars, dbVars, dbUseLog>>

\* main is cancelled while it waits in gather: gather cancels every child
MainCancelled ==
    /\ mainPc = "running"
    /\ mainPc' = "interrupted"
    /\ taskState' = [t \in Components |->
                        IF taskState[t] = "running" THEN "cancelling" ELSE taskState[t]]
    /\ UNCHANGED <<aggVars, hpVars, prodVars, engVars, histVars, updateLog, sideVars,
                   annVars, vcVars, execVars, dbVars, dbUseLog>>

\* how a cancelled run_loop ends: its handler breaks the loop and the coroutine
\* returns, or the CancelledError leaves the coroutine (a loop cancelled in a
\* sleep outside its try)
CancelEndings == {"returned", "cancelled"}

\* a cancelled task gets its CancelledError, runs its handler if it is in its
\* try, and ends; the first child of the cancelled gather that ends as cancelled
\* ends the gather and with it main's wait
TaskCancelHandled(t, ending) ==
    /\ taskState[t] = "cancelling"
    /\ taskState' = [taskState EXCEPT ![t] = "done"]
    /\ dbUseLog' = Append(dbUseLog, [task |-> t, step |-> "cancel_handler",
                                     pool |-> MainPool])
    /\ mainPc' = IF mainPc = "interrupted" /\ ending = "cancelled" THEN "finally" ELSE mainPc
    /\ UNCHANGED <<aggVars, hpVars, prodVars, engVars, histVars, updateLog, sideVars,
                   annVars, vcVars, execVars, dbVars>>

\* the cancelled gather ends when all its children have ended; main goes through
\* `except asyncio.CancelledError` into finally
MainResumes ==
    /\ mainPc = "interrupted"
    /\ \A t \in Components : taskState[t] = "done"
    /\ mainPc' = "finally"
    /\ UNCHANGED <<aggVars, hpVars, prodVars, engVars, histVars, updateLog, sideVars,
                   annVars, vcVars, execVars, dbVars, taskState, dbUseLog>>

\* finally, first statement: await db_manager.close(); the pool is closed and
\* main waits for the close to end
MainCloseDb ==
    /\ mainPc = "finally"
    /\ pools' = [pools EXCEPT ![PoolOf(1)] = "closed"]
    /\ mainPc' = "closing_db"
    /\ UNCHANGED <<aggVars, hpVars, prodVars, engVars, histVars, updateLog, sideVars,
                   annVars, vcVars, execVars, cls_pool, managers, dbCall, dbLog, taskState,
                   dbUseLog>>

\* close returns (self._pool = None); then every task that is not done is
\* cancelled and main waits for them in the second gather
MainCancelTasks ==
    /\ mainPc = "closing_db"
    /\ managers' = [managers EXCEPT ![1].pool = 0]
    /\ taskState' = [t \in Components |->
                        IF taskState[t] = "running" THEN "cancelling" ELSE taskState[t]]
    /\ mainPc' = "gathering"
    /\ UNCHANGED <<aggVars, hpVars, prodVars, engVars, histVars, updateLog, sideVars,
                   annVars, vcVars, execVars, cls_pool, pools, dbCall, dbLog, dbUseLog>>

\* the second gather ends: every task is done
MainGathered ==
    /\ mainPc = "gathering"
    /\ \A t \in Components : taskState[t] = "done"
    /\ mainPc' = "done"
    /\ UNCHANGED <<aggVars, hpVars, prodVars, engVars, histVars, updateLog, sideVars,
                   annVars, vcVars, execVars, dbVars, taskState, dbUseLog>>

NextMain ==
    \/ \E outcome \in CreateOutcomes : MainStart(outcome)
    \/ \E t \in Components : TaskRuns(t)
    \/ \E t \in Components : TaskRaises(t)
    \/ MainCancelled
    \/ \E t \in Components, ending \in CancelEndings : TaskCancelHandled(t, ending)
    \/ MainResumes
    \/ MainCloseDb
    \/ MainCancelTasks
    \/ MainGathered

SpecMain == Init /\ [][NextMain]_vars

====
